---- MODULE Spec2Model ----
(***************************************************************************)
(* Operator console (RavilBuy): the catalog loader and the selection state  *)
(* of the "kill" flow (main page script) and of the "ignore" flow           *)
(* (Site/add-ignore.js).  Each page runs its own script in its own closure; *)
(* the variable page says which of the two documents this session loaded.   *)
(***************************************************************************)
EXTENDS Integers, Sequences, FiniteSets, TLC

VARIABLES
  page,               \* which document is loaded: "main" or "add-ignore"
  \* ---- main page script (kill flow) ----
  cachedFactories,    \* let cachedFactories = []
  factoriesLoaded,    \* let factoriesLoaded = false
  factoriesPromise,   \* let factoriesPromise = null: "null" | "pending" | "fulfilled" | "rejected"
  factoryLoadErrors,  \* let factoryLoadErrors = []
  killSelections,     \* killState.selections
  sweep,              \* position of the async body of loadAllFactories
  calls,              \* the promises handed to the callers of loadAllFactories
  killForm,           \* the form of killFabriks: its run-cleanup checkbox, its preview
  killLists,          \* the selected list and the picker list of the kill flow, as rendered
  cmd,                \* a command form at work: the parts of its builder, its preview
  form,               \* a command form with its fields, as its builder reads them
  \* ---- the network, as either page uses it ----
  net,                \* the fetches of catalog sources issued, and which of them failed
  \* ---- add-ignore page ----
  state,              \* const state = { factories, selections, ignoreSet, loadErrors, isApplying }
  boot,               \* position of bootstrap()
  apply,              \* position of the async body of applySelections
  ui,                 \* what the add-ignore page shows: apply button, result panel, lists
  server,             \* the ignore files kept by the server
  picker              \* the values of pickerSearch, pickerType and pickerIgnoreFilter

vars == <<page, cachedFactories, factoriesLoaded, factoriesPromise, factoryLoadErrors,
          killSelections, sweep, calls, killForm, killLists, cmd, form, net, state,
          boot, apply,
          ui,
          server, picker>>

mainVars == <<cachedFactories, factoriesLoaded, factoriesPromise, factoryLoadErrors,
              killSelections, sweep, calls, killForm, killLists>>

ignoreVars == <<state, boot, apply, ui, server, picker>>

-----------------------------------------------------------------------------
(* Bounds of the model *)

\* how many times loadAllFactories() is called in one session
MaxCalls == 3

-----------------------------------------------------------------------------
(* JavaScript values: a tagged record of one shape *)

Undefined == [k |-> "undefined", s |-> "", n |-> 0]
Null == [k |-> "null", s |-> "", n |-> 0]
NaN == [k |-> "NaN", s |-> "", n |-> 0]
Str(s) == [k |-> "string", s |-> s, n |-> 0]
Num(n) == [k |-> "number", s |-> "", n |-> n]

\* typeof v === "number" (NaN is a number)
IsNumber(v) == v.k \in {"number", "NaN"}

\* the truthiness of a value
Truthy(v) ==
  CASE v.k = "string" -> v.s # ""
    [] v.k = "number" -> v.n # 0
    [] OTHER -> FALSE

\* a ?? b
Coalesce(a, b) == IF a.k \in {"undefined", "null"} THEN b ELSE a

Digits == <<"0", "1", "2", "3", "4", "5", "6", "7", "8", "9">>

IsDigit(c) == \E i \in 1..10 : Digits[i] = c

DigitValue(c) == (CHOOSE i \in 1..10 : Digits[i] = c) - 1

Whitespace == {" ", "\t", "\n", "\r"}

RECURSIVE NatToString(_)
NatToString(n) ==
  IF n < 10 THEN Digits[n + 1] ELSE NatToString(n \div 10) \o Digits[(n % 10) + 1]

\* String(n) for an integer n
IntToString(n) == IF n < 0 THEN "-" \o NatToString(-n) ELSE NatToString(n)

\* String(v) for the values a record field can hold
JsString(v) ==
  CASE v.k = "string" -> v.s
    [] v.k = "number" -> IntToString(v.n)
    [] v.k = "NaN" -> "NaN"
    [] OTHER -> v.k

RECURSIVE TrimStart(_)
TrimStart(s) ==
  IF s # "" /\ Head(s) \in Whitespace THEN TrimStart(Tail(s)) ELSE s

RECURSIVE TrimEnd(_)
TrimEnd(s) ==
  IF s # "" /\ SubSeq(s, Len(s), Len(s)) \in Whitespace
    THEN TrimEnd(SubSeq(s, 1, Len(s) - 1))
    ELSE s

\* String.prototype.trim
Trim(s) == TrimEnd(TrimStart(s))

\* the value of the longest prefix of digits of s, acc being the value so far
RECURSIVE DigitPrefixValue(_, _)
DigitPrefixValue(s, acc) ==
  IF s # "" /\ IsDigit(Head(s))
    THEN DigitPrefixValue(Tail(s), acc * 10 + DigitValue(Head(s)))
    ELSE acc

\* Number.parseInt(s, 10): leading whitespace, an optional sign, then digits;
\* NaN when no digit follows
ParseInt(s) ==
  LET t == TrimStart(s)
      neg == t # "" /\ Head(t) = "-"
      u == IF t # "" /\ Head(t) \in {"-", "+"} THEN Tail(t) ELSE t
  IN IF u = "" \/ ~IsDigit(Head(u))
       THEN NaN
       ELSE Num(IF neg THEN -DigitPrefixValue(u, 0) ELSE DigitPrefixValue(u, 0))

-----------------------------------------------------------------------------
(* Collation: Intl.Collator("ru", {sensitivity: "base", numeric: true}) and  *)
(* String.prototype.localeCompare, on the characters the catalogs use       *)

UpperAlpha == "ABCDEFGHIJKLMNOPQRSTUVWXYZ"
LowerAlpha == "abcdefghijklmnopqrstuvwxyz"

\* punctuation sorts before digits, digits before letters
CollationOrder == " _-,;:.'/\\@$%+=0123456789abcdefghijklmnopqrstuvwxyz"

IsUpper(c) == \E i \in 1..Len(UpperAlpha) : SubSeq(UpperAlpha, i, i) = c

ToLower(c) ==
  IF IsUpper(c)
    THEN LET i == CHOOSE j \in 1..Len(UpperAlpha) : SubSeq(UpperAlpha, j, j) = c
         IN SubSeq(LowerAlpha, i, i)
    ELSE c

\* the primary weight of a character (case is not a primary difference)
CharRank(c) ==
  LET b == ToLower(c)
  IN IF \E i \in 1..Len(CollationOrder) : SubSeq(CollationOrder, i, i) = b
       THEN CHOOSE i \in 1..Len(CollationOrder) : SubSeq(CollationOrder, i, i) = b
       ELSE Len(CollationOrder) + 1

RECURSIVE DigitRunLength(_)
DigitRunLength(s) ==
  IF s # "" /\ IsDigit(Head(s)) THEN 1 + DigitRunLength(Tail(s)) ELSE 0

Sign(n) == IF n < 0 THEN -1 ELSE IF n > 0 THEN 1 ELSE 0

\* compare at primary strength; a run of digits compares by its value when numeric
RECURSIVE BaseCompare(_, _, _)
BaseCompare(a, b, numeric) ==
  IF a = "" \/ b = ""
    THEN Sign(Len(a) - Len(b))
    ELSE IF numeric /\ IsDigit(Head(a)) /\ IsDigit(Head(b))
      THEN LET la == DigitRunLength(a)
               lb == DigitRunLength(b)
               va == DigitPrefixValue(a, 0)
               vb == DigitPrefixValue(b, 0)
           IN IF va # vb
                THEN Sign(va - vb)
                ELSE BaseCompare(SubSeq(a, la + 1, Len(a)), SubSeq(b, lb + 1, Len(b)), numeric)
      ELSE IF CharRank(Head(a)) # CharRank(Head(b))
        THEN Sign(CharRank(Head(a)) - CharRank(Head(b)))
        ELSE BaseCompare(Tail(a), Tail(b), numeric)

\* the tertiary (case) difference of two strings equal at primary strength:
\* lower case sorts first
RECURSIVE CaseCompare(_, _)
CaseCompare(a, b) ==
  IF a = "" \/ b = ""
    THEN 0
    ELSE IF IsUpper(Head(a)) = IsUpper(Head(b))
      THEN CaseCompare(Tail(a), Tail(b))
      ELSE IF IsUpper(Head(a)) THEN 1 ELSE -1

\* COLLATOR.compare(a, b)
COLLATOR(a, b) == BaseCompare(a, b, TRUE)

\* a.localeCompare(b, "ru", {sensitivity, numeric}); sensitivity "variant" is the default
LocaleCompare(a, b, sensitivity, numeric) ==
  LET base == BaseCompare(a, b, numeric)
  IN IF base # 0 \/ sensitivity = "base" THEN base ELSE CaseCompare(a, b)

-----------------------------------------------------------------------------
(* The configured sources *)

\* Object.entries(FACTORY_SOURCES), in insertion order
FACTORY_SOURCES == <<"JV_F_P", "XL_F_P", "JV_F_L", "XL_F_L">>

Types == {FACTORY_SOURCES[i] : i \in 1..Len(FACTORY_SOURCES)}

\* the labels of the sources (the source's labels are Russian; these stand for them)
TYPE_LABELS ==
  [t \in Types |->
     CASE t = "JV_F_P" -> "JV_F_P - catalogs"
       [] t = "XL_F_P" -> "XL_F_P - catalogs"
       [] t = "JV_F_L" -> "JV_F_L - lister"
       [] t = "XL_F_L" -> "XL_F_L - lister"]

\* TYPE_LABELS[type] || type
LabelOf(type) ==
  IF type \in DOMAIN TYPE_LABELS /\ TYPE_LABELS[type] # "" THEN TYPE_LABELS[type] ELSE type

-----------------------------------------------------------------------------
(* The JSON served for the catalog sources *)

\* an element of a payload: an object with the keys the loaders read (a key the
\* object lacks reads as undefined), or a value that is no object
BlankItem ==
  [obj |-> TRUE, id |-> Undefined, ID |-> Undefined, factory_id |-> Undefined,
   name |-> Undefined, Name |-> Undefined, factory_name |-> Undefined, title |-> Undefined,
   item_count |-> Undefined, itemCount |-> Undefined, ItemCount |-> Undefined,
   count |-> Undefined, total |-> Undefined, itemTotal |-> Undefined]

NotAnObject == [BlankItem EXCEPT !.obj = FALSE]

\* the array each catalog file holds on the server
FactoryFile(type) ==
  CASE type = "JV_F_P" ->
         << [BlankItem EXCEPT !.id = Str("2"), !.name = Str("b"), !.item_count = Str("12")],
            [BlankItem EXCEPT !.id = Str("1"), !.name = Str("B"), !.count = Num(3)],
            [BlankItem EXCEPT !.id = Str(""), !.ID = Str("5"), !.name = Str("a")] >>
    [] type = "XL_F_P" ->
         << NotAnObject,
            [BlankItem EXCEPT !.ID = Num(7), !.Name = Str("a"), !.total = Str("x")] >>
    [] type = "JV_F_L" ->
         << [BlankItem EXCEPT !.factory_id = Str("10"), !.title = Str("c")],
            [BlankItem EXCEPT !.factory_id = Str("10"), !.name = Str("c2")] >>
    [] type = "XL_F_L" ->
         << [BlankItem EXCEPT !.id = Str("1"), !.name = Str("a"), !.itemCount = Num(0)] >>

\* how a fetch() of a source can settle: rejected, a non-2xx response, a 2xx response
FetchOutcomes == {"rejected", "http500", "ok"}

\* how response.json() can settle: rejected (no JSON), a JSON value that is no
\* array, the array of the file
JsonOutcomes == {"rejected", "object", "array"}

-----------------------------------------------------------------------------
(* Main page: normalizeFactoryRecord and the sort of loadAllFactories *)

\* normalizeFactoryRecord(type, data): <<>> for null, else <<record>>
normalizeFactoryRecord(type, data) ==
  IF ~data.obj
    THEN <<>>
    ELSE LET rawId == Coalesce(data.id, Coalesce(data.ID, Coalesce(data.factory_id, Str(""))))
             countValue ==
               Coalesce(data.item_count, Coalesce(data.itemCount, Coalesce(data.count,
                 Coalesce(data.total, Coalesce(data.itemTotal, Null)))))
             parsed == ParseInt(countValue.s)
             itemCount ==
               IF IsNumber(countValue)
                 THEN countValue
                 ELSE IF countValue.k = "string" /\ Trim(countValue.s) # "" /\ parsed.k # "NaN"
                   THEN parsed
                   ELSE Undefined
         IN IF ~Truthy(rawId)
              THEN <<>>
              ELSE << [type |-> type,
                       id |-> JsString(rawId),
                       name |-> IF Truthy(data.name) THEN JsString(data.name) ELSE "",
                       itemCount |-> itemCount] >>

\* payload.forEach(entry => { record = normalize(type, entry); if (record) collected.push(record) })
RECURSIVE CollectRecords(_, _, _)
CollectRecords(collected, type, payload) ==
  IF payload = <<>>
    THEN collected
    ELSE CollectRecords(collected \o normalizeFactoryRecord(type, Head(payload)),
                        type, Tail(payload))

\* the comparator given to collected.sort
CompareFactories(a, b) ==
  IF a.type # b.type
    THEN COLLATOR(a.type, b.type)
    ELSE LET nameCompare == COLLATOR(a.name, b.name)
         IN IF nameCompare # 0 THEN nameCompare ELSE COLLATOR(a.id, b.id)

\* Array.prototype.sort is stable: an element goes after the elements that do
\* not compare greater than it
RECURSIVE InsertFactory(_, _)
InsertFactory(sorted, e) ==
  IF sorted = <<>>
    THEN <<e>>
    ELSE IF CompareFactories(sorted[Len(sorted)], e) <= 0
      THEN Append(sorted, e)
      ELSE Append(InsertFactory(SubSeq(sorted, 1, Len(sorted) - 1), e), sorted[Len(sorted)])

\* a sort that leaves the order of the sources and of their files
Unsorted(s) == s

RECURSIVE SortFactories(_)
SortFactories(s) ==
  IF s = <<>>
    THEN <<>>
    ELSE InsertFactory(SortFactories(SubSeq(s, 1, Len(s) - 1)), s[Len(s)])

-----------------------------------------------------------------------------
(* Main page: loadAllFactories *)

\* the lists of a page before anything is rendered into them
NoLists == [selected |-> <<>>, adds |-> <<>>]

\* renderSelected() and renderSelections(): the remove buttons put into selectedList,
\* one for each entry of the selection, with their data-type and data-id
RemoveButtons(sel) ==
  [i \in 1..Len(sel) |-> [type |-> sel[i].type, id |-> sel[i].id]]

\* add buttons that are never disabled
AddButtonsEnabled(entries, sel) ==
  [i \in 1..Len(entries) |->
     [type |-> entries[i].type, id |-> entries[i].id, disabled |-> FALSE]]

\* the forEach of renderPickerList (both pages): the add buttons put into pickerList,
\* one for each entry shown, disabled when its identity is selected
AddButtons(entries, sel) ==
  [i \in 1..Len(entries) |->
     [type |-> entries[i].type, id |-> entries[i].id,
      disabled |-> \E j \in 1..Len(sel) :
                     sel[j].type = entries[i].type /\ sel[j].id = entries[i].id]]

\* renderPickerList() of setupKillFabriksUI, its search empty and its type "all": a
\* status line alone while the catalog is not loaded
renderKillPickerList(loaded, catalog, sel) ==
  IF loaded THEN AddButtons(catalog, sel) ELSE <<>>

NoSweep == [id |-> 0, idx |-> 0, await |-> "none", collected |-> <<>>]

NoTraffic == [fetches |-> [t \in Types |-> 0], sweeps |-> 0, failed |-> {}, open |-> {}]

\* fetch(source.path) is issued for the source at position idx
\* a loop that starts the fetch of the next source along with the one at idx
IssueFetchAhead(n, idx) ==
  LET ahead == {i \in {idx, idx + 1} : i <= Len(FACTORY_SOURCES)}
  IN [n EXCEPT !.fetches = [t \in Types |->
                              IF \E i \in ahead : FACTORY_SOURCES[i] = t
                                THEN @[t] + 1 ELSE @[t]],
               !.open = @ \cup {FACTORY_SOURCES[i] : i \in ahead}]

\* await fetch(source.path) is reached for the source at position idx
IssueFetch(n, idx) ==
  [n EXCEPT !.fetches[FACTORY_SOURCES[idx]] = @ + 1,
            !.open = @ \cup {FACTORY_SOURCES[idx]}]

\* the request for the source at position idx is over: its payload was taken in, or
\* the try block threw
Answered(n, idx) == [n EXCEPT !.open = @ \ {FACTORY_SOURCES[idx]}]

\* loadAllFactories() without the test of the promise at hand: every call made before
\* the catalog is cached starts a sweep of its own
LoadBranchNoJoin == IF factoriesLoaded THEN "cached" ELSE "sweep"

\* loadAllFactories() that shares a sweep in flight but keeps nothing once it is over
LoadBranchNoCache == IF factoriesPromise = "pending" THEN "join" ELSE "sweep"

\* loadAllFactories() that serves from the cache only a sweep in which no source
\* failed, and sweeps again otherwise
LoadBranchRetriesFailed ==
  IF factoriesLoaded /\ factoryLoadErrors = <<>>
    THEN "cached"
    ELSE IF factoriesPromise = "pending" THEN "join" ELSE "sweep"

\* the way loadAllFactories() takes: "cached" (if (factoriesLoaded) return
\* cachedFactories), "sweep" (if (!factoriesPromise) { ... }), or "join" (return the
\* promise at hand)
LoadBranch ==
  IF factoriesLoaded
    THEN "cached"
    ELSE IF factoriesPromise = "null" THEN "sweep" ELSE "join"

\* loadAllFactories(): the caller gets a promise; a new sweep runs up to its first await.
\* The caller is openPicker(), which puts a status line into pickerList and calls
\* renderPickerList() when the promise has settled
loadAllFactories ==
  /\ page = "main"
  /\ Len(calls) < MaxCalls
  /\ CASE LoadBranch = "cached" ->
            /\ calls' = Append(calls, [promise |-> 0, st |-> "fulfilled",
                                       value |-> cachedFactories])
            /\ UNCHANGED <<factoriesPromise, factoryLoadErrors, sweep, net>>
       [] LoadBranch = "sweep" ->
            /\ factoryLoadErrors' = <<>>
            /\ factoriesPromise' = "pending"
            /\ sweep' = [id |-> net.sweeps + 1, idx |-> 1, await |-> "fetch",
                         collected |-> <<>>]
            /\ net' = IssueFetch([net EXCEPT !.sweeps = @ + 1, !.failed = {}], 1)
            /\ calls' = Append(calls, [promise |-> net.sweeps + 1, st |-> "pending",
                                       value |-> <<>>])
       [] LoadBranch = "join" ->
            \* a promise already fulfilled hands its value to the caller at once
            /\ calls' = Append(calls,
                           IF factoriesPromise = "fulfilled"
                             THEN [promise |-> net.sweeps, st |-> "fulfilled",
                                   value |-> cachedFactories]
                             ELSE [promise |-> sweep.id, st |-> "pending", value |-> <<>>])
            /\ UNCHANGED <<factoriesPromise, factoryLoadErrors, sweep, net>>
  /\ killLists' = [killLists EXCEPT !.adds =
                     IF calls'[Len(calls')].st = "fulfilled"
                       THEN renderKillPickerList(factoriesLoaded, cachedFactories,
                                                 killSelections)
                       ELSE <<>>]
  /\ UNCHANGED <<page, cachedFactories, factoriesLoaded, killSelections, killForm>>
  /\ UNCHANGED <<ignoreVars, cmd, form>>

\* the promise of sweep id is fulfilled with value: every caller awaiting it gets value
Fulfil(cs, id, value) ==
  [i \in 1..Len(cs) |->
     IF cs[i].st = "pending" /\ cs[i].promise = id
       THEN [cs[i] EXCEPT !.st = "fulfilled", !.value = value]
       ELSE cs[i]]

\* the request for the source at position idx failed (rejected, non-2xx, no JSON,
\* no array)
LogFailure(n, idx) == [n EXCEPT !.failed = @ \cup {FACTORY_SOURCES[idx]}]

\* the source at sweep.idx is done (collected and errors as it leaves them, n the
\* network log): the loop goes on to the next source, or the sweep sorts, caches and
\* returns
SweepAdvance(collected, errors, n) ==
  /\ factoryLoadErrors' = errors
  /\ IF sweep.idx < Len(FACTORY_SOURCES)
       THEN /\ sweep' = [sweep EXCEPT !.idx = @ + 1, !.await = "fetch",
                                      !.collected = collected]
            /\ net' = IssueFetch(Answered(n, sweep.idx), sweep.idx + 1)
            /\ UNCHANGED <<cachedFactories, factoriesLoaded, factoriesPromise, calls>>
       ELSE /\ cachedFactories' = SortFactories(collected)
            /\ factoriesLoaded' = TRUE
            /\ factoriesPromise' = "fulfilled"
            /\ calls' = Fulfil(calls, sweep.id, SortFactories(collected))
            /\ sweep' = NoSweep
            /\ net' = Answered(n, sweep.idx)

\* a catch block that records nothing
CaughtErrorsDropped(errors, type) == errors

\* what the catch block of the loop leaves in factoryLoadErrors:
\* factoryLoadErrors.push(TYPE_LABELS[type] || type)
CaughtErrors(errors, type) == Append(errors, LabelOf(type))

\* a loop without the try/catch around one source: the first failure ends the sweep
\* with what was collected so far
SourceFailedEndsSweep ==
  /\ factoryLoadErrors' = CaughtErrors(factoryLoadErrors, FACTORY_SOURCES[sweep.idx])
  /\ cachedFactories' = SortFactories(sweep.collected)
  /\ factoriesLoaded' = TRUE
  /\ factoriesPromise' = "fulfilled"
  /\ calls' = Fulfil(calls, sweep.id, SortFactories(sweep.collected))
  /\ sweep' = NoSweep
  /\ net' = Answered(LogFailure(net, sweep.idx), sweep.idx)

\* a loop without a catch block: the failure of a source rejects the promise of the
\* sweep, and the catch handler on it clears factoriesPromise
SourceFailedRejects ==
  /\ factoriesPromise' = "null"
  /\ calls' = [i \in 1..Len(calls) |->
                IF calls[i].promise = sweep.id /\ calls[i].st = "pending"
                  THEN [calls[i] EXCEPT !.st = "rejected"]
                  ELSE calls[i]]
  /\ sweep' = NoSweep
  /\ net' = Answered(LogFailure(net, sweep.idx), sweep.idx)
  /\ UNCHANGED <<cachedFactories, factoriesLoaded, factoryLoadErrors>>

\* the try block threw for the source at sweep.idx: the catch block runs and the
\* loop goes on
SourceFailed ==
  SweepAdvance(sweep.collected,
               CaughtErrors(factoryLoadErrors, FACTORY_SOURCES[sweep.idx]),
               LogFailure(net, sweep.idx))

\* await fetch(source.path) settles
SweepFetchSettled ==
  /\ page = "main"
  /\ sweep.await = "fetch"
  /\ \E outcome \in FetchOutcomes :
       IF outcome = "ok"
         THEN /\ sweep' = [sweep EXCEPT !.await = "json"]
              /\ UNCHANGED <<cachedFactories, factoriesLoaded, factoriesPromise,
                             factoryLoadErrors, calls, net>>
         ELSE SourceFailed
  /\ killLists' = IF sweep' = NoSweep
                    THEN [killLists EXCEPT !.adds =
                            renderKillPickerList(factoriesLoaded', cachedFactories',
                                                 killSelections)]
                    ELSE killLists
  /\ UNCHANGED <<page, killSelections, killForm>>
  /\ UNCHANGED <<ignoreVars, cmd, form>>

\* await response.json() settles
SweepJsonSettled ==
  /\ page = "main"
  /\ sweep.await = "json"
  /\ \E outcome \in JsonOutcomes :
       IF outcome = "array"
         THEN SweepAdvance(CollectRecords(sweep.collected, FACTORY_SOURCES[sweep.idx],
                                          FactoryFile(FACTORY_SOURCES[sweep.idx])),
                           factoryLoadErrors, net)
         ELSE SourceFailed
  /\ killLists' = IF sweep' = NoSweep
                    THEN [killLists EXCEPT !.adds =
                            renderKillPickerList(factoriesLoaded', cachedFactories',
                                                 killSelections)]
                    ELSE killLists
  /\ UNCHANGED <<page, killSelections, killForm>>
  /\ UNCHANGED <<ignoreVars, cmd, form>>

-----------------------------------------------------------------------------
(* main page: building the command lines *)

Backslash == SubSeq("\\ ", 1, 1)

Quote == "\""

Backtick == SubSeq("`'", 1, 1)

\* the characters SAFE_VALUE lets through: /^[0-9A-Za-z_.@%+=:,/\\-]+$/
SafeCharacters ==
  "0123456789ABCDEFGHIJKLMNOPQRSTUVWXYZabcdefghijklmnopqrstuvwxyz_.@%+=:,/\\-"

\* SAFE_VALUE.test(part)
SAFE_VALUE(part) ==
  /\ part # ""
  /\ \A i \in 1..Len(part) :
       \E j \in 1..Len(SafeCharacters) :
         SubSeq(part, i, i) = SubSeq(SafeCharacters, j, j)

\* a replace that leaves the backtick alone
ShellSpecialsNoBacktick == {Quote, Backslash, "$"}

\* the characters the replace of shellQuote puts a backslash before: double quote,
\* backslash, dollar, backtick
ShellSpecials == {Quote, Backslash, "$", Backtick}

\* part.replace(pattern, "\\$1") with the pattern of those characters
RECURSIVE EscapeShell(_)
EscapeShell(part) ==
  IF part = ""
    THEN ""
    ELSE (IF SubSeq(part, 1, 1) \in ShellSpecials
            THEN Backslash \o SubSeq(part, 1, 1)
            ELSE SubSeq(part, 1, 1))
         \o EscapeShell(SubSeq(part, 2, Len(part)))

\* a shellQuote that quotes nothing
shellQuoteVerbatim(rawPart) ==
  IF rawPart.k \in {"undefined", "null"} THEN "" ELSE JsString(rawPart)

\* a shellQuote without the rule for the parts that begin with a dash
shellQuoteNoDash(rawPart) ==
  IF rawPart.k \in {"undefined", "null"}
    THEN ""
    ELSE LET part == JsString(rawPart)
         IN IF part = ""
              THEN ""
              ELSE IF SAFE_VALUE(part)
                THEN part
                ELSE Quote \o EscapeShell(part) \o Quote

\* shellQuote(rawPart)
shellQuote(rawPart) ==
  IF rawPart.k \in {"undefined", "null"}
    THEN ""
    ELSE LET part == JsString(rawPart)
         IN IF part = ""
              THEN ""
              ELSE IF SubSeq(part, 1, 1) = "-"
                THEN part
                ELSE IF SAFE_VALUE(part)
                  THEN part
                  ELSE Quote \o EscapeShell(part) \o Quote

\* Array.prototype.join(separator) on strings
RECURSIVE JoinWith(_, _)
JoinWith(strings, separator) ==
  IF strings = <<>>
    THEN ""
    ELSE IF Len(strings) = 1
      THEN strings[1]
      ELSE strings[1] \o separator \o JoinWith(Tail(strings), separator)

\* part !== undefined && part !== null && part !== ""
IsKept(part) ==
  /\ part.k \notin {"undefined", "null"}
  /\ ~(part.k = "string" /\ part.s = "")

\* a joinCommand that drops nothing
joinCommandUnfiltered(parts) ==
  LET strings == [i \in 1..Len(parts) |->
                    IF parts[i].k \in {"number", "NaN"}
                      THEN Str(JsString(parts[i]))
                      ELSE parts[i]]
  IN JoinWith([i \in 1..Len(strings) |-> shellQuote(strings[i])], " ")

\* joinCommand(parts)
joinCommand(parts) ==
  LET strings == [i \in 1..Len(parts) |->
                    IF parts[i].k \in {"number", "NaN"}
                      THEN Str(JsString(parts[i]))
                      ELSE parts[i]]
      kept == SelectSeq(strings, IsKept)
  IN JoinWith([i \in 1..Len(kept) |-> shellQuote(kept[i])], " ")

\* value.replace(pattern, replacement) for a pattern of one character, all matches
RECURSIVE ReplaceAll(_, _, _)
ReplaceAll(value, char, replacement) ==
  IF value = ""
    THEN ""
    ELSE (IF SubSeq(value, 1, 1) = char THEN replacement ELSE SubSeq(value, 1, 1))
         \o ReplaceAll(SubSeq(value, 2, Len(value)), char, replacement)

\* an escape of the double quotes alone
escapeQuotesOnly(value) == ReplaceAll(value, Quote, Backslash \o Quote)

\* escapeDoubleQuotes(value)
escapeDoubleQuotes(value) ==
  ReplaceAll(ReplaceAll(value, Backslash, Backslash \o Backslash),
             Quote, Backslash \o Quote)

\* buildKillAddCommand(type, id, name)
buildKillAddCommand(type, id, name) ==
  IF id = ""
    THEN ""
    ELSE LET snippet ==
               "from killFabriks import add_kill_fabriks; add_kill_fabriks(" \o Quote
                 \o escapeDoubleQuotes(type) \o Quote \o ", " \o Quote
                 \o escapeDoubleQuotes(id) \o Quote \o ", " \o Quote
                 \o escapeDoubleQuotes(name) \o Quote \o ")"
         IN "python -c " \o Quote \o snippet \o Quote

Scripts ==
  {"login", "fabrik", "items", "exportProducts", "exportLister", "makeHTML",
   "killFabriks"}

DEFAULT_COMMANDS ==
  [script \in Scripts |->
     CASE script = "login" -> "python Login.py"
       [] script = "fabrik" -> "python getFabrik.py"
       [] script = "items" -> "python getItems.py"
       [] script = "exportProducts" -> "python exportProdukt.py"
       [] script = "exportLister" -> "python exportLister.py"
       [] script = "makeHTML" -> "python makeHTML.py"
       [] script = "killFabriks" -> "python killFabriks.py"]

\* a builder that puts the bare command after the lines of the selection
KillCommandsCleanupLast(runCleanup, sel) ==
  SelectSeq([i \in 1..Len(sel) |->
               buildKillAddCommand(sel[i].type, sel[i].id, sel[i].name)],
            LAMBDA command : command # "")
    \o (IF runCleanup THEN <<DEFAULT_COMMANDS["killFabriks"]>> ELSE <<>>)

\* the commands array of commandBuilders.killFabriks, before the default is put in
KillCommands(runCleanup, sel) ==
  (IF runCleanup THEN <<DEFAULT_COMMANDS["killFabriks"]>> ELSE <<>>)
    \o SelectSeq([i \in 1..Len(sel) |->
                    buildKillAddCommand(sel[i].type, sel[i].id, sel[i].name)],
                 LAMBDA command : command # "")

\* commandBuilders.killFabriks(form), runCleanup being the state of the checkbox
killFabriks(runCleanup, sel) ==
  IF KillCommands(runCleanup, sel) = <<>>
    THEN DEFAULT_COMMANDS["killFabriks"]
    ELSE JoinWith(KillCommands(runCleanup, sel), "\n")

\* the add-ignore page has no form of killFabriks
NoKillForm == [runCleanup |-> FALSE, preview |-> ""]

\* no command form is at work
NoCommand == [parts |-> <<>>, script |-> "", built |-> [threw |-> FALSE, text |-> ""],
              preview |-> "", threw |-> FALSE]

\* what a builder gives: the text it returns, or an exception
Returned(text) == [threw |-> FALSE, text |-> text]

Thrown == [threw |-> TRUE, text |-> ""]

\* an updateCommand that shows whatever text it has, the empty one too
updateCommandNoFallback(script, built) ==
  LET commandText == IF built.threw THEN DEFAULT_COMMANDS[script] ELSE built.text
  IN [text |-> commandText, threw |-> FALSE]

\* updateCommand() of the form of script, built being what its builder gives: the
\* text put in the preview, and whether an exception leaves the function
updateCommand(script, built) ==
  LET commandText == IF built.threw THEN DEFAULT_COMMANDS[script] ELSE built.text
  IN [text |-> IF commandText = "" THEN DEFAULT_COMMANDS[script] ELSE commandText,
      threw |-> FALSE]

-----------------------------------------------------------------------------
(* Main page: the builders of the command forms *)

\* the names of the text fields and selects the builders read
FieldNames ==
  {"account", "target", "dataset", "limit", "factory-ids", "factory-names",
   "output-dir", "definition-id", "export-format-id", "expprod",
   "export-encoding", "save-export-encoding", "input-base", "output-base",
   "delimiter"}

\* no command form with fields is at work
NoForm ==
  [script |-> "", text |-> [name \in FieldNames |-> ""], checked |-> {},
   toggles |-> {}, parts |-> <<>>, preview |-> ""]

\* the values of the account checkboxes of a form, in the order of the document
AccountBoxes == <<"bob", "al ice", "eve">>

\* getFieldValue(form, name)
getFieldValue(f, name) == Trim(f.text[name])

\* getCheckedValues(form, "account"): the checked boxes in the order of the document
getCheckedValues(f) ==
  LET at(k) == CHOOSE i \in f.checked : Cardinality({j \in f.checked : j < i}) = k - 1
  IN [k \in 1..Cardinality(f.checked) |-> AccountBoxes[at(k)]]

\* a parseList that does not trim the pieces
parseListUntrimmed(value) ==
  IF value = ""
    THEN <<>>
    ELSE LET seps == {i \in 1..Len(value) :
                        SubSeq(value, i, i) \in {"\r", "\n", ",", ";"}}
             cut(k) == IF k = 0
                         THEN 0
                         ELSE IF k > Cardinality(seps)
                           THEN Len(value) + 1
                           ELSE CHOOSE i \in seps :
                                  Cardinality({j \in seps : j < i}) = k - 1
             items == [k \in 1..(Cardinality(seps) + 1) |->
                         SubSeq(value, cut(k - 1) + 1, cut(k) - 1)]
         IN SelectSeq(items, LAMBDA item : item # "")

\* parseList(value); the empty pieces the split leaves between and around
\* separators are dropped by the filter
parseList(value) ==
  IF value = ""
    THEN <<>>
    ELSE LET seps == {i \in 1..Len(value) :
                        SubSeq(value, i, i) \in {"\r", "\n", ",", ";"}}
             cut(k) == IF k = 0
                         THEN 0
                         ELSE IF k > Cardinality(seps)
                           THEN Len(value) + 1
                           ELSE CHOOSE i \in seps :
                                  Cardinality({j \in seps : j < i}) = k - 1
             items == [k \in 1..(Cardinality(seps) + 1) |->
                         Trim(SubSeq(value, cut(k - 1) + 1, cut(k) - 1))]
         IN SelectSeq(items, LAMBDA item : item # "")

\* parseInteger(value)
parseInteger(value) ==
  IF value = ""
    THEN Null
    ELSE IF ParseInt(value) = NaN THEN Null ELSE ParseInt(value)

\* a push of the flag once and of every value after it
PairsFlagOnce(flag, values) ==
  IF values = <<>>
    THEN <<>>
    ELSE <<Str(flag)>> \o [i \in 1..Len(values) |-> Str(values[i])]

\* values.forEach((v) => parts.push(flag, v))
Pairs(flag, values) ==
  [i \in 1..(2 * Len(values)) |->
     IF i % 2 = 1 THEN Str(flag) ELSE Str(values[i \div 2])]

\* a push of every value that is not empty, the fallback too
OptionalAlsoFallback(flag, value, fallback) ==
  IF value # "" THEN <<Str(flag), Str(value)>> ELSE <<>>

\* if (value && value !== fallback) parts.push(flag, value), where value is the
\* field or, for the fields read with || fallback, the fallback when it is empty;
\* if (value) parts.push(flag, value) for the fields without a fallback
Optional(flag, value, fallback) ==
  IF value # "" /\ value # fallback THEN <<Str(flag), Str(value)>> ELSE <<>>

\* a push of every limit that was parsed, zero too
LimitAlsoZero(f) ==
  LET limit == parseInteger(getFieldValue(f, "limit"))
  IN IF limit # Null THEN <<Str("--limit"), Str(JsString(limit))>> ELSE <<>>

\* a push of the text of the field in the place of the integer parsed
LimitAsTyped(f) ==
  IF Truthy(parseInteger(getFieldValue(f, "limit")))
    THEN <<Str("--limit"), Str(getFieldValue(f, "limit"))>>
    ELSE <<>>

\* const limit = parseInteger(getFieldValue(form, "limit")); if (limit) parts.push(...)
Limit(f) ==
  LET limit == parseInteger(getFieldValue(f, "limit"))
  IN IF Truthy(limit) THEN <<Str("--limit"), Str(JsString(limit))>> ELSE <<>>

\* if (box instanceof HTMLInputElement && box.checked) parts.push(flag)
Toggle(f, name) == IF name \in f.toggles THEN <<Str("--" \o name)>> ELSE <<>>

\* the parts commandBuilders.login hands to joinCommand
login(f) ==
  <<Str("python"), Str("Login.py")>>
    \o Pairs("--account", getCheckedValues(f))
    \o Toggle(f, "verbose")

\* the parts of commandBuilders.fabrik
fabrik(f) ==
  <<Str("python"), Str("getFabrik.py")>>
    \o Optional("--account", getFieldValue(f, "account"), "")
    \o Optional("--target", getFieldValue(f, "target"), "all")
    \o Toggle(f, "verbose")

\* the parts of commandBuilders.items
items(f) ==
  <<Str("python"), Str("getItems.py")>>
    \o Optional("--account", getFieldValue(f, "account"), "")
    \o Optional("--dataset", getFieldValue(f, "dataset"), "all")
    \o Limit(f)
    \o Toggle(f, "verbose")

\* the parts of commandBuilders.exportProducts
exportProducts(f) ==
  <<Str("python"), Str("exportProdukt.py")>>
    \o Pairs("--account", getCheckedValues(f))
    \o Pairs("--factory-id", parseList(getFieldValue(f, "factory-ids")))
    \o Pairs("--factory-name", parseList(getFieldValue(f, "factory-names")))
    \o Limit(f)
    \o Optional("--output-dir", getFieldValue(f, "output-dir"), "CSVDATA")
    \o Optional("--definition-id", getFieldValue(f, "definition-id"), "")
    \o Optional("--export-format-id", getFieldValue(f, "export-format-id"), "")
    \o Optional("--expprod", getFieldValue(f, "expprod"), "3")
    \o Optional("--export-encoding", getFieldValue(f, "export-encoding"), "1")
    \o Optional("--save-export-encoding",
                getFieldValue(f, "save-export-encoding"), "1")
    \o Toggle(f, "skip-existing")
    \o Toggle(f, "dry-run")
    \o Toggle(f, "verbose")

\* the parts of commandBuilders.exportLister
exportLister(f) ==
  <<Str("python"), Str("exportLister.py")>>
    \o Pairs("--account", getCheckedValues(f))
    \o Pairs("--factory-id", parseList(getFieldValue(f, "factory-ids")))
    \o Pairs("--factory-name", parseList(getFieldValue(f, "factory-names")))
    \o Limit(f)
    \o Optional("--output-dir", getFieldValue(f, "output-dir"), "CSVDATA")
    \o Optional("--definition-id", getFieldValue(f, "definition-id"), "")
    \o Optional("--export-format-id", getFieldValue(f, "export-format-id"), "")
    \o Optional("--expprod", getFieldValue(f, "expprod"), "3")
    \o Optional("--export-encoding", getFieldValue(f, "export-encoding"), "1")
    \o Toggle(f, "skip-existing")
    \o Toggle(f, "dry-run")
    \o Toggle(f, "verbose")

\* the parts of commandBuilders.makeHTML: one --account, then every checked value
makeHTML(f) ==
  <<Str("python"), Str("makeHTML.py")>>
    \o (IF Len(getCheckedValues(f)) > 0
          THEN <<Str("--account")>>
                 \o [i \in 1..Len(getCheckedValues(f)) |-> Str(getCheckedValues(f)[i])]
          ELSE <<>>)
    \o Optional("--input-base", getFieldValue(f, "input-base"), "CSVDATA")
    \o Optional("--output-base", getFieldValue(f, "output-base"), "readyhtml")
    \o Optional("--delimiter", getFieldValue(f, "delimiter"), ";")
    \o Limit(f)
    \o Toggle(f, "no-overwrite")
    \o Toggle(f, "verbose")

\* the forms whose builders read fields
FieldScripts ==
  {"login", "fabrik", "items", "exportProducts", "exportLister", "makeHTML"}

\* the parts commandBuilders[script] hands to joinCommand for the form f
commandBuilders(script, f) ==
  CASE script = "login" -> login(f)
    [] script = "fabrik" -> fabrik(f)
    [] script = "items" -> items(f)
    [] script = "exportProducts" -> exportProducts(f)
    [] script = "exportLister" -> exportLister(f)
    [] script = "makeHTML" -> makeHTML(f)

\* the form after updateCommand ran on it
FormUpdated(f) ==
  LET parts == commandBuilders(f.script, f)
  IN [f EXCEPT !.parts = parts,
               !.preview = updateCommand(f.script, Returned(joinCommand(parts))).text]

-----------------------------------------------------------------------------
(* Main page: the selection of the kill flow *)

\* isFactorySelected(type, id), on the selection sel
isFactorySelected(sel, type, id) ==
  \E i \in 1..Len(sel) : sel[i].type = type /\ sel[i].id = id

\* the index findIndex gives (0 for -1)
FindIndex(sel, type, id) ==
  IF \E i \in 1..Len(sel) : sel[i].type = type /\ sel[i].id = id
    THEN CHOOSE i \in 1..Len(sel) :
           /\ sel[i].type = type /\ sel[i].id = id
           /\ \A j \in 1..(i - 1) : ~(sel[j].type = type /\ sel[j].id = id)
    ELSE 0

\* splice(index): everything from index on goes
RemoveFrom(sel, index) == SubSeq(sel, 1, index - 1)

\* splice(index, 1)
RemoveAt(sel, index) ==
  SubSeq(sel, 1, index - 1) \o SubSeq(sel, index + 1, Len(sel))

\* addFactorySelection without the isFactorySelected test
addFactorySelectionUnchecked(sel, factory) ==
  IF factory.id = "" \/ factory.type = ""
    THEN [sel |-> sel, ret |-> FALSE]
    ELSE [sel |-> Append(sel, [type |-> factory.type,
                               id |-> factory.id,
                               name |-> factory.name,
                               count |-> IF IsNumber(factory.itemCount)
                                           THEN factory.itemCount ELSE Null]),
          ret |-> TRUE]

\* addFactorySelection(factory): the selection it leaves and what it returns
addFactorySelection(sel, factory) ==
  IF factory.id = "" \/ factory.type = ""
    THEN [sel |-> sel, ret |-> FALSE]
    ELSE IF isFactorySelected(sel, factory.type, factory.id)
      THEN [sel |-> sel, ret |-> FALSE]
      ELSE [sel |-> Append(sel, [type |-> factory.type,
                                 id |-> factory.id,
                                 name |-> factory.name,
                                 count |-> IF IsNumber(factory.itemCount)
                                             THEN factory.itemCount ELSE Null]),
            ret |-> TRUE]

\* removeFactorySelection(type, id)
removeFactorySelection(sel, type, id) ==
  LET index == FindIndex(sel, type, id)
  IN IF index = 0
       THEN [sel |-> sel, ret |-> FALSE]
       ELSE [sel |-> RemoveAt(sel, index), ret |-> TRUE]

\* the data-* attributes a click on an add button of the picker can carry
KillAddDatasets ==
  { [type |-> "JV_F_P", id |-> "1", name |-> "B", count |-> "3"],
    [type |-> "JV_F_P", id |-> "1", name |-> "", count |-> ""],
    [type |-> "JV_F_P", id |-> "2", name |-> "b", count |-> "12"],
    [type |-> "XL_F_P", id |-> "7", name |-> "a " \o Quote \o "b" \o Backslash \o "c$",
     count |-> "x"],
    [type |-> "", id |-> "1", name |-> "a", count |-> ""],
    [type |-> "XL_F_L", id |-> "", name |-> "a", count |-> "0"] }

\* the data-* attributes a click on a remove button can carry
RemoveDatasets ==
  { [type |-> d.type, id |-> d.id] : d \in KillAddDatasets }

\* the object the picker handler gives to addFactorySelection for the dataset d
PickerFactory(d) ==
  LET count == IF d.count # "" THEN ParseInt(d.count) ELSE Null
  IN [type |-> d.type, id |-> d.id, name |-> d.name,
      itemCount |-> IF count.k = "NaN" THEN Null ELSE count]

\* the form of killFabriks after updateCommand(), the checkbox being runCleanup and
\* the selection sel
KillFormUpdated(runCleanup, sel) ==
  [runCleanup |-> runCleanup,
   preview |-> updateCommand("killFabriks",
                             Returned(killFabriks(runCleanup, sel))).text]

\* the run-cleanup checkbox is clicked: the "change" listener of the form runs
\* updateCommand()
RunCleanupChange ==
  /\ page = "main"
  /\ killForm' = KillFormUpdated(~killForm.runCleanup, killSelections)
  /\ UNCHANGED <<page, cachedFactories, factoriesLoaded, factoriesPromise,
                 factoryLoadErrors, killSelections, killLists, sweep, calls, net>>
  /\ UNCHANGED <<ignoreVars, cmd, form>>

\* pickerList "click" handler of setupKillFabriksUI
KillPickerClick ==
  /\ page = "main"
  /\ \E d \in KillAddDatasets :
       LET r == addFactorySelection(killSelections, PickerFactory(d))
       IN /\ killSelections' = r.sel
          /\ killForm' = IF r.ret THEN KillFormUpdated(killForm.runCleanup, r.sel)
                                  ELSE killForm
          /\ killLists' = IF r.ret
                            THEN [selected |-> RemoveButtons(r.sel),
                                  adds |-> renderKillPickerList(factoriesLoaded,
                                                                cachedFactories, r.sel)]
                            ELSE killLists
  /\ UNCHANGED <<page, cachedFactories, factoriesLoaded, factoriesPromise,
                 factoryLoadErrors, sweep, calls, net>>
  /\ UNCHANGED <<ignoreVars, cmd, form>>

\* selectedList "click" handler of setupKillFabriksUI
KillRemoveClick ==
  /\ page = "main"
  /\ \E d \in RemoveDatasets :
       /\ d.type # "" /\ d.id # ""
       /\ LET r == removeFactorySelection(killSelections, d.type, d.id)
          IN /\ killSelections' = r.sel
             /\ killForm' = IF r.ret THEN KillFormUpdated(killForm.runCleanup, r.sel)
                                     ELSE killForm
             /\ killLists' = IF r.ret
                               THEN [selected |-> RemoveButtons(r.sel),
                                     adds |-> renderKillPickerList(factoriesLoaded,
                                                                   cachedFactories, r.sel)]
                               ELSE killLists
  /\ UNCHANGED <<page, cachedFactories, factoriesLoaded, factoriesPromise,
                 factoryLoadErrors, sweep, calls, net>>
  /\ UNCHANGED <<ignoreVars, cmd, form>>

-----------------------------------------------------------------------------
(* add-ignore page: the catalog and the ignore lists *)

\* Object.entries(IGNORE_SOURCES), in insertion order
IGNORE_SOURCES == <<"JV_F_P", "XL_F_P", "JV_F_L", "XL_F_L">>

\* keyFor(type, id)
keyFor(type, id) == type \o "::" \o id

\* the body of payload.forEach in loadFactories: <<>> when the item is skipped
loadFactoriesItem(type, item) ==
  IF ~item.obj
    THEN <<>>
    ELSE LET factoryId == Coalesce(item.id, Coalesce(item.ID, item.factory_id))
             name == Coalesce(item.name, Coalesce(item.Name,
                       Coalesce(item.factory_name, Coalesce(item.title, Str("")))))
             count == Coalesce(item.item_count, Coalesce(item.ItemCount,
                        Coalesce(item.total, Coalesce(item.count, Null))))
         IN IF ~Truthy(factoryId)
              THEN <<>>
              ELSE << [type |-> type,
                       id |-> JsString(factoryId),
                       name |-> IF Truthy(name) THEN JsString(name) ELSE "",
                       itemCount |->
                         IF IsNumber(count)
                           THEN count
                           ELSE IF count.k = "string" /\ Trim(count.s) # ""
                             THEN ParseInt(count.s)
                             ELSE Null] >>

RECURSIVE CollectEntries(_, _, _)
CollectEntries(entries, type, payload) ==
  IF payload = <<>>
    THEN entries
    ELSE CollectEntries(entries \o loadFactoriesItem(type, Head(payload)),
                        type, Tail(payload))

\* the comparator given to entries.sort in loadFactories
CompareEntries(a, b) ==
  IF a.type # b.type
    THEN LocaleCompare(a.type, b.type, "variant", FALSE)
    ELSE LET nameCompare == LocaleCompare(a.name, b.name, "base", TRUE)
         IN IF nameCompare # 0
              THEN nameCompare
              ELSE LocaleCompare(a.id, b.id, "variant", TRUE)

RECURSIVE InsertEntry(_, _)
InsertEntry(sorted, e) ==
  IF sorted = <<>>
    THEN <<e>>
    ELSE IF CompareEntries(sorted[Len(sorted)], e) <= 0
      THEN Append(sorted, e)
      ELSE Append(InsertEntry(SubSeq(sorted, 1, Len(sorted) - 1), e), sorted[Len(sorted)])

RECURSIVE SortEntries(_)
SortEntries(s) ==
  IF s = <<>>
    THEN <<>>
    ELSE InsertEntry(SortEntries(SubSeq(s, 1, Len(s) - 1)), s[Len(s)])

\* the body of payload.forEach in loadIgnoreLists: the keys one item adds to next
IgnoreItemKeys(type, item) ==
  IF ~item.obj
    THEN {}
    ELSE LET id == Coalesce(item.id, Coalesce(item.ID, Null))
         IN IF Truthy(id) THEN {keyFor(type, JsString(id))} ELSE {}

\* the keys of one ignore file
IgnoreFileKeys(type, payload) ==
  UNION {IgnoreItemKeys(type, payload[i]) : i \in 1..Len(payload)}

\* the keys derivable from all the ignore files of the server
ServerKeys(files) ==
  UNION {IgnoreFileKeys(t, files[t]) : t \in DOMAIN files}

\* the ignore files a server can hold when the page is opened
InitialIgnoreFiles ==
  { [t \in Types |-> <<>>],
    [t \in Types |->
       CASE t = "JV_F_P" -> << [BlankItem EXCEPT !.id = Str("1")] >>
         [] t = "XL_F_P" -> << NotAnObject, [BlankItem EXCEPT !.ID = Num(7)] >>
         [] OTHER -> <<>>] }

\* loadIgnoreLists(): its position. idx is the source awaited, next the keys so far;
\* past the last source the loop is over
IgnoreLoadStart == [idx |-> 1, await |-> "fetch", next |-> {}]

IgnoreLoadDone(l) == l.idx > Len(IGNORE_SOURCES)

\* a loop that a rejection or a non-2xx response ends
IgnoreFetchSettledStops(l, outcome) ==
  IF outcome = "ok"
    THEN [l EXCEPT !.await = "json"]
    ELSE [l EXCEPT !.idx = Len(IGNORE_SOURCES) + 1, !.await = "fetch"]

\* fetchJson: await fetch(path) settles. A rejection or a non-2xx response is caught
\* by the loop, which goes on with the next source
IgnoreFetchSettled(l, outcome) ==
  IF outcome = "ok"
    THEN [l EXCEPT !.await = "json"]
    ELSE [l EXCEPT !.idx = @ + 1, !.await = "fetch"]

\* fetchJson: response.json() settles. A payload that is no array is skipped (continue)
IgnoreJsonSettled(l, outcome, files) ==
  IF outcome = "array"
    THEN [l EXCEPT !.idx = @ + 1, !.await = "fetch",
                   !.next = @ \cup IgnoreFileKeys(IGNORE_SOURCES[l.idx],
                                                  files[IGNORE_SOURCES[l.idx]])]
    ELSE [l EXCEPT !.idx = @ + 1, !.await = "fetch"]

-----------------------------------------------------------------------------
(* add-ignore page: selection state and what the page shows *)

\* isSelected(type, id), on the selection sel
isSelected(sel, type, id) ==
  \E i \in 1..Len(sel) : sel[i].type = type /\ sel[i].id = id

\* addSelection with unshift in the place of push
addSelectionInFront(sel, ignoreSet, factory) ==
  IF \E i \in 1..Len(sel) : sel[i].type = factory.type /\ sel[i].id = factory.id
    THEN [sel |-> sel, ret |-> FALSE]
    ELSE [sel |-> <<[type |-> factory.type,
                     id |-> factory.id,
                     name |-> factory.name,
                     itemCount |-> Coalesce(factory.itemCount, Null),
                     alreadyIgnored |->
                       keyFor(factory.type, factory.id) \in ignoreSet]>> \o sel,
          ret |-> TRUE]

\* addSelection(factory): the selection it leaves and what it returns
addSelection(sel, ignoreSet, factory) ==
  IF isSelected(sel, factory.type, factory.id)
    THEN [sel |-> sel, ret |-> FALSE]
    ELSE [sel |-> Append(sel, [type |-> factory.type,
                               id |-> factory.id,
                               name |-> factory.name,
                               itemCount |-> Coalesce(factory.itemCount, Null),
                               alreadyIgnored |->
                                 keyFor(factory.type, factory.id) \in ignoreSet]),
          ret |-> TRUE]

\* removeSelection(type, id)
removeSelection(sel, type, id) ==
  LET index == FindIndex(sel, type, id)
  IN IF index = 0
       THEN [sel |-> sel, ret |-> FALSE]
       ELSE [sel |-> RemoveAt(sel, index), ret |-> TRUE]

\* renderSelections(): what it does to the entries (entry.alreadyIgnored = ...)
renderSelections(sel, ignoreSet) ==
  [i \in 1..Len(sel) |->
     [sel[i] EXCEPT !.alreadyIgnored = keyFor(sel[i].type, sel[i].id) \in ignoreSet]]

\* an updateApplyButton that looks at the selection only
updateApplyButtonSelectionOnly(isApplying, sel) == Len(sel) = 0

\* updateApplyButton(): applyButton.disabled
updateApplyButton(isApplying, sel) ==
  IF isApplying THEN TRUE ELSE Len(sel) = 0

\* a handler that takes the entry from the data-* attributes of the button alone
FindFactoryFromDataset(factories, type, id) ==
  <<[type |-> type, id |-> id, name |-> "", itemCount |-> Null]>>

\* state.factories.find(item => item.type === type && item.id === id): <<>> when none
FindFactory(factories, type, id) ==
  LET index == FindIndex(factories, type, id)
  IN IF index = 0 THEN <<>> ELSE <<factories[index]>>

\* the data-* attributes a click on an add or a remove button can carry
IgnoreDatasets ==
  { [type |-> "JV_F_P", id |-> "1"],
    [type |-> "XL_F_P", id |-> "7"],
    [type |-> "XL_F_P", id |-> "9"],
    [type |-> "", id |-> "1"],
    [type |-> "JV_F_L", id |-> ""] }

-----------------------------------------------------------------------------
(* add-ignore page: the filters of the picker *)

\* String.prototype.toLowerCase
RECURSIVE toLowerCase(_)
toLowerCase(s) ==
  IF s = "" THEN "" ELSE ToLower(SubSeq(s, 1, 1)) \o toLowerCase(Tail(s))

\* String.prototype.includes
includes(text, query) ==
  \E i \in 0..(Len(text) - Len(query)) : SubSeq(text, i + 1, i + Len(query)) = query

\* renderPickerList with both restricted modes of the ignore filter left out
renderPickerListAnyMode(factories, ignoreSet, search, selectedType, ignoreFilter) ==
  LET query == toLowerCase(Trim(search))
      Shown(factory) ==
        /\ selectedType = "all" \/ factory.type = selectedType
        /\ \/ query = ""
           \/ includes(toLowerCase(factory.name), query)
           \/ includes(toLowerCase(factory.id), query)
  IN SelectSeq(factories, Shown)

\* renderPickerList(): the entries of state.factories kept by the filter, given the
\* values of pickerSearch, pickerType and pickerIgnoreFilter
renderPickerList(factories, ignoreSet, search, selectedType, ignoreFilter) ==
  LET query == toLowerCase(Trim(search))
      Shown(factory) ==
        LET alreadyIgnored == keyFor(factory.type, factory.id) \in ignoreSet
        IN /\ ~(selectedType # "all" /\ factory.type # selectedType)
           /\ ~(ignoreFilter = "new" /\ alreadyIgnored)
           /\ ~(ignoreFilter = "ignored" /\ ~alreadyIgnored)
           /\ \/ query = ""
              \/ includes(toLowerCase(factory.name), query)
              \/ includes(toLowerCase(factory.id), query)
  IN SelectSeq(factories, Shown)

\* the options of pickerType and of pickerIgnoreFilter, the texts typed into
\* pickerSearch
PickerTypes == {"all"} \cup Types
PickerIgnoreFilters == {"all", "new", "ignored"}
PickerSearches == {"", " A ", "1", "zz"}

\* the controls of the picker as the document has them: an empty search, the first
\* option of either select
NoPicker == [search |-> "", type |-> "all", ignoreFilter |-> "all"]

\* the list renderPickerList() has put into pickerList
pickerList ==
  renderPickerList(state.factories, state.ignoreSet,
                   picker.search, picker.type, picker.ignoreFilter)

\* renderSelections(); renderPickerList(): what the two lists of the page show after
\* them, the selection being sel and the key set ignoreSet
ListsRendered(u, sel, ignoreSet) ==
  [u EXCEPT !.selected = RemoveButtons(sel),
            !.adds = AddButtons(renderPickerList(state.factories, ignoreSet, picker.search,
                                                 picker.type, picker.ignoreFilter),
                                sel)]

-----------------------------------------------------------------------------
(* add-ignore page: bootstrap() *)

BootOff == [pc |-> "off", idx |-> 0, await |-> "none", entries |-> <<>>,
            errors |-> <<>>, ign |-> [idx |-> 0, await |-> "none", next |-> {}]]

\* bootstrap() has called loadFactories(), which awaits its first fetch
BootStart == [BootOff EXCEPT !.pc = "loadFactories", !.idx = 1, !.await = "fetch"]

\* loadFactories: the source at boot.idx is done; the loop goes on, or the catalog is
\* stored and bootstrap calls loadIgnoreLists()
BootAdvance(entries, errors, n) ==
  IF boot.idx < Len(FACTORY_SOURCES)
    THEN /\ boot' = [boot EXCEPT !.idx = @ + 1, !.await = "fetch",
                                 !.entries = entries, !.errors = errors]
         /\ net' = IssueFetch(Answered(n, boot.idx), boot.idx + 1)
         /\ UNCHANGED state
    ELSE /\ state' = [state EXCEPT !.loadErrors = errors,
                                   !.factories = SortEntries(entries)]
         /\ boot' = [BootOff EXCEPT !.pc = "loadIgnoreLists", !.ign = IgnoreLoadStart]
         /\ net' = Answered(n, boot.idx)

\* loadFactories: catch (error) { errors.push(TYPE_LABELS[type] || type) }
BootSourceFailed ==
  BootAdvance(boot.entries, CaughtErrors(boot.errors, FACTORY_SOURCES[boot.idx]),
              LogFailure(net, boot.idx))

\* loadFactories: await fetch(path) of fetchJson settles
BootFetchSettled ==
  /\ page = "add-ignore"
  /\ boot.pc = "loadFactories" /\ boot.await = "fetch"
  /\ \E outcome \in FetchOutcomes :
       IF outcome = "ok"
         THEN boot' = [boot EXCEPT !.await = "json"] /\ UNCHANGED <<state, net>>
         ELSE BootSourceFailed
  /\ UNCHANGED <<page, apply, ui, server>>
  /\ UNCHANGED <<mainVars, cmd, form, picker>>

\* loadFactories: response.json() of fetchJson settles
BootJsonSettled ==
  /\ page = "add-ignore"
  /\ boot.pc = "loadFactories" /\ boot.await = "json"
  /\ \E outcome \in JsonOutcomes :
       IF outcome = "array"
         THEN BootAdvance(CollectEntries(boot.entries, FACTORY_SOURCES[boot.idx],
                                         FactoryFile(FACTORY_SOURCES[boot.idx])),
                          boot.errors, net)
         ELSE BootSourceFailed
  /\ UNCHANGED <<page, apply, ui, server>>
  /\ UNCHANGED <<mainVars, cmd, form, picker>>

\* bootstrap: loadIgnoreLists() has gone on to l; when it is over the key set is
\* replaced, the page is rendered and the handlers are registered
BootIgnoreAdvance(l) ==
  IF IgnoreLoadDone(l)
    THEN /\ state' = [state EXCEPT !.ignoreSet = l.next,
                                   !.selections = renderSelections(state.selections, l.next)]
         /\ ui' = [ListsRendered(ui, state.selections, l.next)
                     EXCEPT !.applyDisabled =
                              updateApplyButton(state.isApplying, state.selections)]
         /\ boot' = [BootOff EXCEPT !.pc = "ready"]
    ELSE /\ boot' = [boot EXCEPT !.ign = l]
         /\ UNCHANGED <<state, ui>>

\* bootstrap: a fetch of loadIgnoreLists settles
BootIgnoreFetchSettled ==
  /\ page = "add-ignore"
  /\ boot.pc = "loadIgnoreLists" /\ boot.ign.await = "fetch"
  /\ \E outcome \in FetchOutcomes :
       BootIgnoreAdvance(IgnoreFetchSettled(boot.ign, outcome))
  /\ UNCHANGED <<page, apply, server>>
  /\ UNCHANGED <<mainVars, net, cmd, form, picker>>

\* bootstrap: a response.json() of loadIgnoreLists settles
BootIgnoreJsonSettled ==
  /\ page = "add-ignore"
  /\ boot.pc = "loadIgnoreLists" /\ boot.ign.await = "json"
  /\ \E outcome \in JsonOutcomes :
       BootIgnoreAdvance(IgnoreJsonSettled(boot.ign, outcome, server.files))
  /\ UNCHANGED <<page, apply, server>>
  /\ UNCHANGED <<mainVars, net, cmd, form, picker>>

-----------------------------------------------------------------------------
(* add-ignore page: the click handlers of the selection *)

\* pickerList "click" handler
IgnorePickerClick ==
  /\ page = "add-ignore"
  /\ boot.pc = "ready"
  /\ \E d \in IgnoreDatasets :
       /\ d.type # "" /\ d.id # ""
       /\ FindFactory(state.factories, d.type, d.id) # <<>>
       /\ LET r == addSelection(state.selections, state.ignoreSet,
                                FindFactory(state.factories, d.type, d.id)[1])
          IN /\ state' = [state EXCEPT !.selections =
                            IF r.ret THEN renderSelections(r.sel, state.ignoreSet) ELSE r.sel]
             /\ ui' = IF r.ret
                        THEN [ListsRendered(ui, r.sel, state.ignoreSet)
                                EXCEPT !.applyDisabled =
                                         updateApplyButton(state.isApplying, r.sel)]
                        ELSE ui
  /\ UNCHANGED <<page, boot, apply, server>>
  /\ UNCHANGED <<mainVars, net, cmd, form, picker>>

\* selectedList "click" handler
IgnoreRemoveClick ==
  /\ page = "add-ignore"
  /\ boot.pc = "ready"
  /\ \E d \in IgnoreDatasets :
       /\ d.type # "" /\ d.id # ""
       /\ LET r == removeSelection(state.selections, d.type, d.id)
          IN /\ state' = [state EXCEPT !.selections =
                            IF r.ret THEN renderSelections(r.sel, state.ignoreSet) ELSE r.sel]
             /\ ui' = IF r.ret
                        THEN [ListsRendered(ui, r.sel, state.ignoreSet)
                                EXCEPT !.applyDisabled =
                                         updateApplyButton(state.isApplying, r.sel)]
                        ELSE ui
  /\ UNCHANGED <<page, boot, apply, server>>
  /\ UNCHANGED <<mainVars, net, cmd, form, picker>>

-----------------------------------------------------------------------------
(* add-ignore page: applySelections and the server behind /api/add-ignore *)

NoResponse == [results |-> <<>>, hasKeys |-> FALSE, keys |-> {}]

ApplyIdle == [pc |-> "idle", sent |-> <<>>, response |-> NoResponse,
              ign |-> [idx |-> 0, await |-> "none", next |-> {}], inFlight |-> 0]

\* the one result shown when the apply throws
ErrorResult == [type |-> "", id |-> "", status |-> "error"]

\* a guard that looks at the selection only
ApplyRefusedOnlyWhenEmpty == Len(state.selections) = 0

\* if (!state.selections.length || state.isApplying) return
ApplyRefused == Len(state.selections) = 0 \/ state.isApplying

\* state.selections.map(entry => ({type, id, name}))
ApplyPayload(sel) ==
  [i \in 1..Len(sel) |-> [type |-> sel[i].type, id |-> sel[i].id, name |-> sel[i].name]]

\* applyButton "click" handler: applySelections() up to its first await
ApplyClick ==
  /\ page = "add-ignore"
  /\ boot.pc = "ready"
  /\ IF ApplyRefused
       THEN UNCHANGED <<state, apply, ui>>
       ELSE /\ state' = [state EXCEPT !.isApplying = TRUE]
            /\ ui' = [ui EXCEPT !.applyDisabled =
                                     updateApplyButton(TRUE, state.selections),
                                 !.results = <<>>]
            /\ apply' = [ApplyIdle EXCEPT !.pc = "fetch",
                                          !.sent = ApplyPayload(state.selections),
                                          !.inFlight = apply.inFlight + 1]
  /\ UNCHANGED <<page, boot, server>>
  /\ UNCHANGED <<mainVars, net, cmd, form, picker>>

\* the server handles one request: the entries at the positions failing get "error",
\* an entry already in its ignore file "exists", any other is appended to the ignore
\* file of its type ("added")
ServerResults(files, sent, failing) ==
  [i \in 1..Len(sent) |->
     [type |-> sent[i].type, id |-> sent[i].id,
      status |-> IF i \in failing
                   THEN "error"
                   ELSE IF keyFor(sent[i].type, sent[i].id) \in ServerKeys(files)
                     THEN "exists"
                     ELSE "added"]]

RECURSIVE ServerFiles(_, _)
ServerFiles(files, results) ==
  IF results = <<>>
    THEN files
    ELSE LET r == Head(results)
         IN ServerFiles(
              IF r.status = "added" /\ r.type \in DOMAIN files
                   /\ keyFor(r.type, r.id) \notin ServerKeys(files)
                THEN [files EXCEPT ![r.type] = Append(@, [BlankItem EXCEPT !.id = Str(r.id)])]
                ELSE files,
              Tail(results))

\* a finally block that does not reset isApplying
ApplyFinallyStaysBusy(sel, ignoreSet, results, inFlight) ==
  /\ state' = [state EXCEPT !.ignoreSet = ignoreSet,
                            !.selections = renderSelections(sel, ignoreSet)]
  /\ ui' = [ListsRendered(ui, sel, ignoreSet)
              EXCEPT !.applyDisabled = updateApplyButton(state.isApplying, sel),
                     !.results = results]
  /\ apply' = [ApplyIdle EXCEPT !.inFlight = inFlight]

\* finally { isApplying = false; updateApplyButton(); renderSelections(); ... }
\* with the selection, key set and result panel the try or catch block left
ApplyFinally(sel, ignoreSet, results, inFlight) ==
  /\ state' = [state EXCEPT !.isApplying = FALSE,
                            !.ignoreSet = ignoreSet,
                            !.selections = renderSelections(sel, ignoreSet)]
  /\ ui' = [ListsRendered(ui, sel, ignoreSet)
              EXCEPT !.applyDisabled = updateApplyButton(FALSE, sel),
                     !.results = results]
  /\ apply' = [ApplyIdle EXCEPT !.inFlight = inFlight]

\* a catch block that also empties the selection
ApplyCaughtClears(inFlight) ==
  ApplyFinally(<<>>, state.ignoreSet, <<ErrorResult>>, inFlight)

\* catch (error) { showResults([{status: "error", ...}]) }
ApplyCaught(inFlight) ==
  ApplyFinally(state.selections, state.ignoreSet, <<ErrorResult>>, inFlight)

\* new Set(results.filter(entry => entry.status === "error").map(keyFor))
FailedKeys(results) ==
  {keyFor(results[i].type, results[i].id) :
     i \in {j \in 1..Len(results) : results[j].status = "error"}}

\* a filter that also keeps the entries whose key is not among the entries sent
KeepFailedOrUnsent(sel, failedKeys) ==
  SelectSeq(sel, LAMBDA e :
    \/ keyFor(e.type, e.id) \in failedKeys
    \/ \A i \in 1..Len(apply.sent) : keyFor(apply.sent[i].type, apply.sent[i].id)
                                        # keyFor(e.type, e.id))

\* state.selections.filter(entry => failedKeys.has(keyFor(entry.type, entry.id)))
RECURSIVE KeepFailed(_, _)
KeepFailed(sel, failedKeys) ==
  IF sel = <<>>
    THEN <<>>
    ELSE IF keyFor(Head(sel).type, Head(sel).id) \in failedKeys
      THEN <<Head(sel)>> \o KeepFailed(Tail(sel), failedKeys)
      ELSE KeepFailed(Tail(sel), failedKeys)

\* the try block from the assignment of failedKeys on, the key set being ignoreSet
ApplyCompleted(ignoreSet) ==
  ApplyFinally(KeepFailed(state.selections, FailedKeys(apply.response.results)),
               ignoreSet, apply.response.results, apply.inFlight)

\* await fetch("/api/add-ignore", ...) settles
ApplyFetchSettled ==
  /\ page = "add-ignore"
  /\ apply.pc = "fetch"
  /\ \/ \* the request is rejected (network error)
        /\ ApplyCaught(apply.inFlight - 1)
        /\ UNCHANGED server
     \/ \* a non-2xx response: await response.text() is next
        /\ apply' = [apply EXCEPT !.pc = "text", !.inFlight = @ - 1]
        /\ UNCHANGED <<state, ui, server>>
     \/ \* a 2xx response: the server has handled the request
        \E failing \in SUBSET (1..Len(apply.sent)), hasKeys \in BOOLEAN :
          LET results == ServerResults(server.files, apply.sent, failing)
              files == ServerFiles(server.files, results)
          IN /\ server' = [server EXCEPT !.files = files]
             /\ apply' = [apply EXCEPT !.pc = "json", !.inFlight = @ - 1,
                                       !.response = [results |-> results,
                                                     hasKeys |-> hasKeys,
                                                     keys |-> IF hasKeys
                                                                THEN ServerKeys(files)
                                                                ELSE {}]]
             /\ UNCHANGED <<state, ui>>
  /\ UNCHANGED <<page, boot>>
  /\ UNCHANGED <<mainVars, net, cmd, form, picker>>

\* await response.text() settles (with the text or with a rejection): the apply throws
ApplyTextSettled ==
  /\ page = "add-ignore"
  /\ apply.pc = "text"
  /\ ApplyCaught(apply.inFlight)
  /\ UNCHANGED <<page, boot, server>>
  /\ UNCHANGED <<mainVars, net, cmd, form, picker>>

\* if (Array.isArray(data.ignore_keys) && data.ignore_keys.length)
HasIgnoreKeys(response) == response.hasKeys /\ response.keys # {}

\* await response.json() settles
ApplyJsonSettled ==
  /\ page = "add-ignore"
  /\ apply.pc = "json"
  /\ \/ \* the body is no JSON
        ApplyCaught(apply.inFlight)
     \/ \* the results are shown; the key set comes from the response
        /\ HasIgnoreKeys(apply.response)
        /\ ApplyCompleted(apply.response.keys)
     \/ \* the results are shown; loadIgnoreLists() is awaited
        /\ ~HasIgnoreKeys(apply.response)
        /\ apply' = [apply EXCEPT !.pc = "reload", !.ign = IgnoreLoadStart]
        /\ ui' = [ui EXCEPT !.results = apply.response.results]
        /\ UNCHANGED state
  /\ UNCHANGED <<page, boot, server>>
  /\ UNCHANGED <<mainVars, net, cmd, form, picker>>

\* a reload that starts over when it has gone through its sources
ApplyReloadStartsOver(l) ==
  /\ apply' = [apply EXCEPT !.ign = IF IgnoreLoadDone(l) THEN IgnoreLoadStart ELSE l]
  /\ UNCHANGED <<state, ui>>

\* applySelections: loadIgnoreLists() has gone on to l; when it is over the key set
\* is replaced and the apply completes
ApplyReloadAdvance(l) ==
  IF IgnoreLoadDone(l)
    THEN ApplyCompleted(l.next)
    ELSE /\ apply' = [apply EXCEPT !.ign = l]
         /\ UNCHANGED <<state, ui>>

\* applySelections: a fetch of loadIgnoreLists settles
ApplyReloadFetchSettled ==
  /\ page = "add-ignore"
  /\ apply.pc = "reload" /\ apply.ign.await = "fetch"
  /\ \E outcome \in FetchOutcomes :
       ApplyReloadAdvance(IgnoreFetchSettled(apply.ign, outcome))
  /\ UNCHANGED <<page, boot, server>>
  /\ UNCHANGED <<mainVars, net, cmd, form, picker>>

\* applySelections: a response.json() of loadIgnoreLists settles
ApplyReloadJsonSettled ==
  /\ page = "add-ignore"
  /\ apply.pc = "reload" /\ apply.ign.await = "json"
  /\ \E outcome \in JsonOutcomes :
       ApplyReloadAdvance(IgnoreJsonSettled(apply.ign, outcome, server.files))
  /\ UNCHANGED <<page, boot, server>>
  /\ UNCHANGED <<mainVars, net, cmd, form, picker>>

-----------------------------------------------------------------------------
(* The specification *)

Pages == {"main", "add-ignore"}

Init ==
  /\ page \in Pages
  /\ cachedFactories = <<>>
  /\ factoriesLoaded = FALSE
  /\ factoriesPromise = "null"
  /\ factoryLoadErrors = <<>>
  /\ killSelections = <<>>
  /\ sweep = NoSweep
  /\ calls = <<>>
  /\ killForm \in IF page = "main"
                   THEN {KillFormUpdated(checked, <<>>) : checked \in BOOLEAN}
                   ELSE {NoKillForm}
  /\ killLists = NoLists
  /\ cmd = NoCommand
  /\ form = NoForm
  /\ net = IF page = "add-ignore"
             THEN IssueFetch(NoTraffic, 1)
             ELSE NoTraffic
  /\ state = [factories |-> <<>>, selections |-> <<>>, ignoreSet |-> {},
              loadErrors |-> <<>>, isApplying |-> FALSE]
  /\ boot = IF page = "add-ignore" THEN BootStart ELSE BootOff
  /\ apply = ApplyIdle
  /\ ui = [applyDisabled |-> FALSE, results |-> <<>>, selected |-> <<>>, adds |-> <<>>]
  /\ picker = NoPicker
  /\ server \in IF page = "add-ignore"
                 THEN {[files |-> f] : f \in InitialIgnoreFiles}
                 ELSE {[files |-> [t \in Types |-> <<>>]]}

Next ==
  \/ loadAllFactories
  \/ SweepFetchSettled
  \/ SweepJsonSettled
  \/ RunCleanupChange
  \/ KillPickerClick
  \/ KillRemoveClick
  \/ BootFetchSettled
  \/ BootJsonSettled
  \/ BootIgnoreFetchSettled
  \/ BootIgnoreJsonSettled
  \/ IgnorePickerClick
  \/ IgnoreRemoveClick
  \/ ApplyClick
  \/ ApplyFetchSettled
  \/ ApplyTextSettled
  \/ ApplyJsonSettled
  \/ ApplyReloadFetchSettled
  \/ ApplyReloadJsonSettled

Spec == Init /\ [][Next]_vars

-----------------------------------------------------------------------------
(* A command form of the main page: its fields give the parts of the command
   line, and every input event runs updateCommand *)

MaxParts == 2

\* values a field or an option of a form gives as a part of the command line
Tokens ==
  {Undefined, Null, Str(""), Num(12),
   Str("python"), Str("--verbose"), Str("-a b "),
   Str("a b"), Str(" "), Str("it's " \o Quote \o "q" \o Quote),
   Str("a" \o Backslash \o "b"), Str("a" \o Backslash \o " b"),
   Str("$x" \o Backtick \o "y" \o Backtick)}

\* the form after updateCommand ran on it: the builder joins the parts with
\* joinCommand, or throws
CommandUpdated(script, parts, threw) ==
  LET built == IF threw THEN Thrown ELSE Returned(joinCommand(parts))
      shown == updateCommand(script, built)
  IN [parts |-> parts, script |-> script, built |-> built,
      preview |-> shown.text, threw |-> shown.threw]

\* forms.forEach: the first updateCommand() of a form
InitCommand ==
  /\ page = "main"
  /\ cachedFactories = <<>>
  /\ factoriesLoaded = FALSE
  /\ factoriesPromise = "null"
  /\ factoryLoadErrors = <<>>
  /\ killSelections = <<>>
  /\ sweep = NoSweep
  /\ calls = <<>>
  /\ killForm = KillFormUpdated(FALSE, <<>>)
  /\ killLists = NoLists
  /\ cmd \in {CommandUpdated(script, <<>>, threw) :
                script \in Scripts, threw \in BOOLEAN}
  /\ form = NoForm
  /\ net = NoTraffic
  /\ state = [factories |-> <<>>, selections |-> <<>>, ignoreSet |-> {},
              loadErrors |-> <<>>, isApplying |-> FALSE]
  /\ boot = BootOff
  /\ apply = ApplyIdle
  /\ ui = [applyDisabled |-> FALSE, results |-> <<>>, selected |-> <<>>, adds |-> <<>>]
  /\ picker = NoPicker
  /\ server = [files |-> [t \in Types |-> <<>>]]

\* the input and change listeners of a form: a field gives one more part, and
\* updateCommand runs
FormInput ==
  /\ Len(cmd.parts) < MaxParts
  /\ \E part \in Tokens, threw \in BOOLEAN :
       cmd' = CommandUpdated(cmd.script, Append(cmd.parts, part), threw)
  /\ UNCHANGED <<page, mainVars, ignoreVars, net, form>>

NextCommand == FormInput

SpecCommand == InitCommand /\ [][NextCommand]_vars

-----------------------------------------------------------------------------
(* The command forms of the main page with their fields: every input event
   changes one field, box or toggle and runs updateCommand *)

\* how many fields, boxes and toggles of a form are filled in at once
MaxFilled == 2

\* the text fields and selects of each form
ScriptFields ==
  [script \in FieldScripts |->
     CASE script = "login" -> {}
       [] script = "fabrik" -> {"account", "target"}
       [] script = "items" -> {"account", "dataset", "limit"}
       [] script = "exportProducts" ->
            {"factory-ids", "factory-names", "limit", "output-dir", "definition-id",
             "export-format-id", "expprod", "export-encoding", "save-export-encoding"}
       [] script = "exportLister" ->
            {"factory-ids", "factory-names", "limit", "output-dir", "definition-id",
             "export-format-id", "expprod", "export-encoding"}
       [] script = "makeHTML" -> {"input-base", "output-base", "delimiter", "limit"}]

\* the toggles of each form
ScriptToggles ==
  [script \in FieldScripts |->
     CASE script \in {"login", "fabrik", "items"} -> {"verbose"}
       [] script \in {"exportProducts", "exportLister"} ->
            {"skip-existing", "dry-run", "verbose"}
       [] script = "makeHTML" -> {"no-overwrite", "verbose"}]

\* what a user puts into a field
FieldValues ==
  [name \in FieldNames |->
     CASE name = "account" -> {"bob", " al ice "}
       [] name = "target" -> {"all", "new"}
       [] name = "dataset" -> {"all", "big set"}
       [] name = "limit" -> {"abc", "0", "12", "12abc"}
       [] name = "factory-ids" -> {"7", "7, 8;9", ";7,,7\n 8 ;"}
       [] name = "factory-names" -> {"Alpha; Beta Gamma", "x,x"}
       [] name = "output-dir" -> {"CSVDATA", " CSVDATA ", "out dir"}
       [] name = "definition-id" -> {"5"}
       [] name = "export-format-id" -> {"5"}
       [] name = "expprod" -> {"3", "1"}
       [] name = "export-encoding" -> {"1", "2"}
       [] name = "save-export-encoding" -> {"1", "2"}
       [] name = "input-base" -> {"CSVDATA", "in"}
       [] name = "output-base" -> {"readyhtml", "web"}
       [] name = "delimiter" -> {";", ","}]

\* how many fields, boxes and toggles of the form are filled in
Filled(f) ==
  Cardinality({name \in FieldNames : f.text[name] # ""})
    + Cardinality(f.checked) + Cardinality(f.toggles)

\* forms.forEach: the first updateCommand() of a form whose fields are empty
InitForms ==
  /\ page = "main"
  /\ cachedFactories = <<>>
  /\ factoriesLoaded = FALSE
  /\ factoriesPromise = "null"
  /\ factoryLoadErrors = <<>>
  /\ killSelections = <<>>
  /\ sweep = NoSweep
  /\ calls = <<>>
  /\ killForm = KillFormUpdated(FALSE, <<>>)
  /\ killLists = NoLists
  /\ cmd = NoCommand
  /\ form \in {FormUpdated([NoForm EXCEPT !.script = script]) :
                 script \in FieldScripts}
  /\ net = NoTraffic
  /\ state = [factories |-> <<>>, selections |-> <<>>, ignoreSet |-> {},
              loadErrors |-> <<>>, isApplying |-> FALSE]
  /\ boot = BootOff
  /\ apply = ApplyIdle
  /\ ui = [applyDisabled |-> FALSE, results |-> <<>>, selected |-> <<>>, adds |-> <<>>]
  /\ picker = NoPicker
  /\ server = [files |-> [t \in Types |-> <<>>]]

\* an input event of a text field or a select: it is filled in or emptied
FieldInput ==
  /\ \E name \in ScriptFields[form.script] :
       \E value \in FieldValues[name] \cup {""} :
         /\ value # form.text[name]
         /\ (form.text[name] = "" => Filled(form) < MaxFilled)
         /\ form' = FormUpdated([form EXCEPT !.text[name] = value])
  /\ UNCHANGED <<page, mainVars, ignoreVars, net, cmd>>

\* a change event of an account checkbox
AccountChange ==
  /\ form.script \in {"login", "exportProducts", "exportLister", "makeHTML"}
  /\ \E box \in 1..Len(AccountBoxes) :
       /\ (box \notin form.checked => Filled(form) < MaxFilled)
       /\ form' = FormUpdated([form EXCEPT !.checked =
                                 IF box \in @ THEN @ \ {box} ELSE @ \cup {box}])
  /\ UNCHANGED <<page, mainVars, ignoreVars, net, cmd>>

\* a change event of a toggle
ToggleChange ==
  /\ \E name \in ScriptToggles[form.script] :
       /\ (name \notin form.toggles => Filled(form) < MaxFilled)
       /\ form' = FormUpdated([form EXCEPT !.toggles =
                                 IF name \in @ THEN @ \ {name} ELSE @ \cup {name}])
  /\ UNCHANGED <<page, mainVars, ignoreVars, net, cmd>>

NextForms ==
  \/ FieldInput
  \/ AccountChange
  \/ ToggleChange

SpecForms == InitForms /\ [][NextForms]_vars

-----------------------------------------------------------------------------
(* The picker of the add-ignore page: bootstrap, then the user works its filters *)

InitPicker == Init /\ page = "add-ignore"

\* pickerSearch "input" listener: renderPickerList
PickerSearchInput ==
  /\ page = "add-ignore"
  /\ boot.pc = "ready"
  /\ \E value \in PickerSearches \ {picker.search} :
       /\ picker' = [picker EXCEPT !.search = value]
       /\ ui' = [ui EXCEPT !.adds =
                   AddButtons(renderPickerList(state.factories, state.ignoreSet,
                                               picker'.search, picker'.type,
                                               picker'.ignoreFilter),
                              state.selections)]
  /\ UNCHANGED <<page, state, boot, apply, server>>
  /\ UNCHANGED <<mainVars, net, cmd, form>>

\* pickerType "change" listener: renderPickerList
PickerTypeChange ==
  /\ page = "add-ignore"
  /\ boot.pc = "ready"
  /\ \E value \in PickerTypes \ {picker.type} :
       /\ picker' = [picker EXCEPT !.type = value]
       /\ ui' = [ui EXCEPT !.adds =
                   AddButtons(renderPickerList(state.factories, state.ignoreSet,
                                               picker'.search, picker'.type,
                                               picker'.ignoreFilter),
                              state.selections)]
  /\ UNCHANGED <<page, state, boot, apply, server>>
  /\ UNCHANGED <<mainVars, net, cmd, form>>

\* pickerIgnoreFilter "change" listener: renderPickerList
PickerIgnoreFilterChange ==
  /\ page = "add-ignore"
  /\ boot.pc = "ready"
  /\ \E value \in PickerIgnoreFilters \ {picker.ignoreFilter} :
       /\ picker' = [picker EXCEPT !.ignoreFilter = value]
       /\ ui' = [ui EXCEPT !.adds =
                   AddButtons(renderPickerList(state.factories, state.ignoreSet,
                                               picker'.search, picker'.type,
                                               picker'.ignoreFilter),
                              state.selections)]
  /\ UNCHANGED <<page, state, boot, apply, server>>
  /\ UNCHANGED <<mainVars, net, cmd, form>>

NextPicker ==
  \/ BootFetchSettled
  \/ BootJsonSettled
  \/ BootIgnoreFetchSettled
  \/ BootIgnoreJsonSettled
  \/ PickerSearchInput
  \/ PickerTypeChange
  \/ PickerIgnoreFilterChange

SpecPicker == InitPicker /\ [][NextPicker]_vars

-----------------------------------------------------------------------------
(* The add-ignore page, where every request of an apply is answered in the end *)

NextApply ==
  \/ BootFetchSettled
  \/ BootJsonSettled
  \/ BootIgnoreFetchSettled
  \/ BootIgnoreJsonSettled
  \/ IgnorePickerClick
  \/ IgnoreRemoveClick
  \/ ApplyClick
  \/ ApplyFetchSettled
  \/ ApplyTextSettled
  \/ ApplyJsonSettled
  \/ ApplyReloadFetchSettled
  \/ ApplyReloadJsonSettled

\* the POST of an apply, the reading of its body and the fetches of the reload of
\* the ignore lists all settle in the end; nothing is asked of the user
SpecApply ==
  /\ InitPicker
  /\ [][NextApply]_vars
  /\ WF_vars(ApplyFetchSettled)
  /\ WF_vars(ApplyTextSettled)
  /\ WF_vars(ApplyJsonSettled)
  /\ WF_vars(ApplyReloadFetchSettled)
  /\ WF_vars(ApplyReloadJsonSettled)

-----------------------------------------------------------------------------
(* Properties: loading the catalog *)

\* the calls of loadAllFactories() made before the first sweep resolved
EarlyCalls == {i \in 1..Len(calls) : calls[i].promise # 0}

\* C1: however many calls of loadAllFactories() are made before the first sweep has
\* resolved, one sweep is started, every source is fetched at most once, and all those
\* callers wait on the same promise and are given the same catalog
C1_OneSweepForAllCallers ==
  /\ net.sweeps <= 1
  /\ Len(calls) > 0 => net.sweeps = 1
  /\ \A t \in Types : net.fetches[t] <= 1
  /\ \A i \in EarlyCalls :
       /\ calls[i].promise = 1
       /\ calls[i].st = "pending" => factoriesPromise = "pending" /\ sweep.id = 1
       /\ calls[i].st = "fulfilled" => calls[i].value = cachedFactories
  /\ \A i, j \in EarlyCalls : calls[i].st = calls[j].st /\ calls[i].value = calls[j].value

\* three callers joined one sweep and were given its catalog
C1_Witness ==
  /\ page = "main"
  /\ Cardinality(EarlyCalls) >= 3
  /\ \A i \in EarlyCalls : calls[i].st = "fulfilled" /\ Len(calls[i].value) >= 2

\* C2: once a sweep has completed, a later call of loadAllFactories() is given the
\* cached catalog as it stands, and no step fetches anything or touches the cache
C2_CachedAfterSweep ==
  [][factoriesLoaded =>
       /\ net' = net
       /\ cachedFactories' = cachedFactories
       /\ factoriesLoaded'
       /\ Len(calls') > Len(calls) =>
            /\ calls'[Len(calls')].st = "fulfilled"
            /\ calls'[Len(calls')].value = cachedFactories]_vars

\* a call made after the sweep was served from the cache
C2_Witness ==
  /\ factoriesLoaded
  /\ Len(cachedFactories) >= 2
  /\ \E i \in 1..Len(calls) : calls[i].promise = 0 /\ calls[i].value = cachedFactories

\* is b a rearrangement of a
IsPermutation(a, b) ==
  /\ Len(a) = Len(b)
  /\ \A i \in 1..Len(a) :
       Cardinality({j \in 1..Len(a) : a[j] = a[i]})
         = Cardinality({j \in 1..Len(b) : b[j] = a[i]})

RECURSIVE ExpectedFrom(_, _)
\* the entries entriesOf[type] of the sources from position idx on, the failed ones
\* left out
ExpectedFrom(idx, entriesOf) ==
  IF idx > Len(FACTORY_SOURCES)
    THEN <<>>
    ELSE (IF FACTORY_SOURCES[idx] \in net.failed
            THEN <<>>
            ELSE entriesOf[FACTORY_SOURCES[idx]])
         \o ExpectedFrom(idx + 1, entriesOf)

KillEntriesOf == [type \in Types |-> CollectRecords(<<>>, type, FactoryFile(type))]

IgnoreEntriesOf == [type \in Types |-> CollectEntries(<<>>, type, FactoryFile(type))]

\* the add-ignore page has its catalog: loadFactories() is over
BootCatalogLoaded == page = "add-ignore" /\ boot.pc \in {"loadIgnoreLists", "ready"}

\* C3: a source that answers non-2xx or with something that is no array adds no entry
\* and stops no other source from being fetched; the catalog of a finished sweep holds
\* the normalized entries of the sources that succeeded, and nothing else (both pages)
C3_FailedSourceIsolated ==
  /\ factoriesLoaded =>
       /\ \A t \in Types : net.fetches[t] = 1
       /\ IsPermutation(cachedFactories, ExpectedFrom(1, KillEntriesOf))
  /\ BootCatalogLoaded =>
       /\ \A t \in Types : net.fetches[t] = 1
       /\ IsPermutation(state.factories, ExpectedFrom(1, IgnoreEntriesOf))

\* a sweep in which the first source failed and later sources gave their entries
C3_Witness ==
  /\ factoriesLoaded
  /\ "JV_F_P" \in net.failed
  /\ "JV_F_L" \notin net.failed
  /\ Len(cachedFactories) >= 2

\* how often label occurs in errors
Occurrences(errors, label) == Cardinality({i \in 1..Len(errors) : errors[i] = label})

\* errors names the failed sources, each once, and no other source
NamesFailedSources(errors) ==
  /\ Len(errors) = Cardinality(net.failed)
  /\ \A t \in Types :
       Occurrences(errors, LabelOf(t)) = IF t \in net.failed THEN 1 ELSE 0

\* C4: after a sweep the list of failed sources holds the label of every source that
\* failed in that sweep, each once, and the label of no source that succeeded
C4_ErrorsNameFailedSources ==
  /\ factoriesLoaded => NamesFailedSources(factoryLoadErrors)
  /\ BootCatalogLoaded => NamesFailedSources(state.loadErrors)

\* a sweep in which two sources failed and two succeeded
C4_Witness ==
  /\ factoriesLoaded
  /\ Cardinality(net.failed) = 2
  /\ Len(factoryLoadErrors) = 2

-----------------------------------------------------------------------------
(* Properties: the selections *)

\* does sel hold an entry of this identity
Holds(sel, type, id) == \E i \in 1..Len(sel) : sel[i].type = type /\ sel[i].id = id

\* r is what an add of f to sel has to give: nothing changed and false when the
\* identity of f is in sel, f appended as the last entry and true when it is not
AddOutcome(sel, f, r) ==
  IF Holds(sel, f.type, f.id)
    THEN r.ret = FALSE /\ r.sel = sel
    ELSE /\ r.ret = TRUE
         /\ Len(r.sel) = Len(sel) + 1
         /\ SubSeq(r.sel, 1, Len(sel)) = sel
         /\ r.sel[Len(r.sel)].type = f.type
         /\ r.sel[Len(r.sel)].id = f.id
         /\ r.sel[Len(r.sel)].name = f.name

\* the objects the kill picker can hand to addFactorySelection that are catalog
\* entries (type and id not empty)
KillCandidates ==
  {PickerFactory(d) : d \in {e \in KillAddDatasets : e.type # "" /\ e.id # ""}}

\* the entries of the catalog of the add-ignore page
IgnoreCandidates == {state.factories[i] : i \in 1..Len(state.factories)}

\* C5: in both flows an add of an entry whose (type, id) is selected returns false and
\* leaves the selection as it is; an add of an entry of a new identity appends it as
\* the last element and returns true
C5_AddAppendsOrRefuses ==
  /\ \A f \in KillCandidates :
       AddOutcome(killSelections, f, addFactorySelection(killSelections, f))
  /\ \A f \in IgnoreCandidates :
       AddOutcome(state.selections, f,
                  addSelection(state.selections, state.ignoreSet, f))

\* two entries were added on the add-ignore page, one of them ignored already; every
\* further add of either is a duplicate, every other entry of the catalog is new
C5_Witness ==
  /\ page = "add-ignore"
  /\ Len(state.selections) = 2
  /\ state.selections[1].type = "XL_F_P"
  /\ state.selections[2].alreadyIgnored
  /\ Len(state.factories) > 2

\* sel without the entries of this identity, the others in their order
Without(sel, type, id) == SelectSeq(sel, LAMBDA e : ~(e.type = type /\ e.id = id))

\* r is what a remove of (type, id) from sel has to give
RemoveOutcome(sel, type, id, r) ==
  IF Holds(sel, type, id)
    THEN /\ r.ret = TRUE
         /\ Len(r.sel) = Len(sel) - 1
         /\ r.sel = Without(sel, type, id)
    ELSE r.ret = FALSE /\ r.sel = sel

\* C6: in both flows a remove of an identity that is not selected returns false and
\* leaves the selection as it is; a remove of a selected identity returns true and
\* takes out that one entry, found by type and id alone, the others keeping their order
C6_RemoveTakesOneOrRefuses ==
  /\ \A d \in RemoveDatasets :
       RemoveOutcome(killSelections, d.type, d.id,
                     removeFactorySelection(killSelections, d.type, d.id))
  /\ \A d \in IgnoreDatasets :
       RemoveOutcome(state.selections, d.type, d.id,
                     removeSelection(state.selections, d.type, d.id))

\* three entries are selected in the kill flow, the first of them under a name and a
\* count no remove button carries: it can be removed from under the two others
C6_Witness ==
  /\ page = "main"
  /\ Len(killSelections) = 3
  /\ killSelections[1].type = "JV_F_P" /\ killSelections[1].id = "1"
  /\ killSelections[1].name = "B" /\ killSelections[1].count = Num(3)
  /\ killSelections[3].type = "XL_F_P"

\* the identities of sel, in its order
Keys(sel) == [i \in 1..Len(sel) |-> <<sel[i].type, sel[i].id>>]

KeySet(sel) == {Keys(sel)[i] : i \in 1..Len(sel)}

NoDuplicates(sel) == \A i, j \in 1..Len(sel) : Keys(sel)[i] = Keys(sel)[j] => i = j

\* new holds the entries of old that are left in the order they had in old, and what
\* it holds besides comes after them
OrderKept(old, new) ==
  LET stay == SelectSeq(Keys(old), LAMBDA k : k \in KeySet(new))
  IN /\ Len(new) >= Len(stay)
     /\ SubSeq(Keys(new), 1, Len(stay)) = stay

\* C7: whatever adds, removes, loads and applies have run, no two entries of a
\* selection share (type, id), and the entries stand in the order they were added in
C7_UniqueInInsertionOrder ==
  /\ [](NoDuplicates(killSelections) /\ NoDuplicates(state.selections))
  /\ [][/\ OrderKept(killSelections, killSelections')
         /\ OrderKept(state.selections, state.selections')]_vars

\* an apply has come back with an error for both entries sent: both are selected still
C7_Witness ==
  /\ apply.pc = "idle"
  /\ Len(ui.results) = 2
  /\ Len(state.selections) = 2
  /\ state.selections[1].type = "XL_F_P"

\* a step of a click on an add button: one entry more at the end, nothing else touched
\* but what the handler renders
AddStep ==
  \/ /\ Len(killSelections') = Len(killSelections) + 1
     /\ SubSeq(killSelections', 1, Len(killSelections)) = killSelections
     /\ UNCHANGED <<cachedFactories, factoriesLoaded, factoriesPromise,
                    factoryLoadErrors, sweep, calls, net>>
  \/ /\ Len(state.selections') = Len(state.selections) + 1
     /\ SubSeq(Keys(state.selections'), 1, Len(state.selections)) = Keys(state.selections)
     /\ state' = [state EXCEPT !.selections = state.selections']
     /\ ui'.results = ui.results
     /\ UNCHANGED <<boot, apply, server, net>>

\* a step of a click on a remove button: one entry less, nothing else touched but
\* what the handler renders
RemoveStep ==
  \/ /\ \E i \in 1..Len(killSelections) :
          killSelections' = SubSeq(killSelections, 1, i - 1)
                              \o SubSeq(killSelections, i + 1, Len(killSelections))
     /\ UNCHANGED <<cachedFactories, factoriesLoaded, factoriesPromise,
                    factoryLoadErrors, sweep, calls, net>>
  \/ /\ \E i \in 1..Len(state.selections) :
          Keys(state.selections') = SubSeq(Keys(state.selections), 1, i - 1)
              \o SubSeq(Keys(state.selections), i + 1, Len(state.selections))
     /\ state' = [state EXCEPT !.selections = state.selections']
     /\ ui'.results = ui.results
     /\ UNCHANGED <<boot, apply, server, net>>

\* a step changes which identities a selection holds
MembershipChanges ==
  \/ KeySet(killSelections') # KeySet(killSelections)
  \/ KeySet(state.selections') # KeySet(state.selections)

\* the results of an apply have come and are shown, and the selection goes on with
\* the entries the results report an error for
ApplyDropsDoneStep ==
  /\ apply.pc \in {"json", "reload"}
  /\ apply'.pc = "idle"
  /\ ui'.results = apply.response.results
  /\ Keys(state.selections') =
       SelectSeq(Keys(state.selections),
                 LAMBDA k : \E i \in 1..Len(ui'.results) :
                              /\ ui'.results[i].status = "error"
                              /\ ui'.results[i].type = k[1]
                              /\ ui'.results[i].id = k[2])
  /\ killSelections' = killSelections

\* C8 as the specification words it: the identities a selection holds are changed by
\* an explicit add or remove and by no other operation (catalog load, load or reload
\* of the ignore lists, apply, rendering)
C8_OnlyAddAndRemove ==
  [][MembershipChanges => AddStep \/ RemoveStep]_vars

\* C8: the identities a selection holds are changed by an explicit add or remove and
\* by an apply whose results have come, which drops every entry not reported with an
\* error; no other operation (catalog load, load or reload of the ignore lists, an
\* apply that failed, rendering) changes them
C8_AddRemoveAndAppliedDrop ==
  [][MembershipChanges => AddStep \/ RemoveStep \/ ApplyDropsDoneStep]_vars

\* an apply has come back with one entry added and one in error: the first has left
\* the selection without a remove
C8_Witness ==
  /\ apply.pc = "idle"
  /\ ~state.isApplying
  /\ Len(ui.results) = 2
  /\ ui.results[1].status = "added" /\ ui.results[2].status = "error"
  /\ Len(state.selections) = 1
  /\ state.selections[1].type = ui.results[2].type
  /\ state.selections[1].id = ui.results[2].id

-----------------------------------------------------------------------------
(* Properties: applying the selection *)

\* the state in which applySelections() has to return at once
MustRefuse == Len(state.selections) = 0 \/ state.isApplying

\* C9: at most one request to /api/add-ignore is in flight at any time; while an apply
\* is pending, or while the selection is empty, no request is sent and no apply is
\* started (isApplying, the result panel and the position of the apply stay)
C9_OneApplyInFlight ==
  /\ [](apply.inFlight <= 1 /\ (apply.inFlight = 1 => state.isApplying))
  /\ [][MustRefuse =>
          /\ apply'.inFlight <= apply.inFlight
          /\ apply'.pc = "fetch" => apply.pc = "fetch"
          /\ ~state.isApplying =>
               /\ ~state'.isApplying
               /\ apply' = apply
               /\ ui'.results = ui.results]_vars

\* a request is in flight while two entries are selected: a click on apply is refused
C9_Witness ==
  /\ state.isApplying
  /\ apply.inFlight = 1
  /\ Len(state.selections) = 2
  /\ ui.applyDisabled

\* the step in which an apply that failed (request rejected, or non-2xx response and
\* its text read) comes to its end
ApplyFailsStep ==
  /\ state.isApplying
  /\ apply.pc \in {"fetch", "text"}
  /\ apply'.pc = "idle"

\* C10: when the request of an apply fails (network error or non-2xx response) the
\* apply leaves the selection and the ignore key set as they are, from the arrival of
\* the response to its end; one error result is shown and isApplying is false again,
\* so that the same apply can be made again
C10_FailedApplyKeepsState ==
  [][/\ ApplyFailsStep =>
          /\ state'.selections = state.selections
          /\ state'.ignoreSet = state.ignoreSet
          /\ ~state'.isApplying
          /\ ui'.results = <<ErrorResult>>
          /\ ui'.applyDisabled = (Len(state.selections) = 0)
          /\ server' = server
     /\ (apply.pc = "fetch" /\ apply'.pc = "text") => state' = state /\ ui' = ui]_vars

\* an apply of two entries has failed: both are selected still, the error is shown,
\* the button is enabled
C10_Witness ==
  /\ apply.pc = "idle"
  /\ ~state.isApplying
  /\ ui.results = <<ErrorResult>>
  /\ Len(state.selections) = 2
  /\ ~ui.applyDisabled

-----------------------------------------------------------------------------
(* Properties: the end of a sweep *)

\* a sweep was started and has come to its end
SweepOver == net.sweeps > 0 /\ sweep.id = 0

\* C11 as the specification words it: when a sweep is over, with or without failures,
\* factoriesPromise is cleared, and after a sweep with failures the next call of
\* loadAllFactories() starts a new sweep
C11_MarkerClearedForRetry ==
  SweepOver =>
    /\ factoriesPromise = "null"
    /\ net.failed # {} => LoadBranch = "sweep"

\* the step in which the request for a source of the running sweep is over
SourceAnswered == \E t \in net.open : t \notin net'.open

\* C12 as the specification words it: the fetches of one sweep overlap, the fetch of
\* a source being started before the request for another source is over; at the least,
\* when the request for one source is over the fetch of another one has been started
C12_FetchesOverlap ==
  [][SourceAnswered => Cardinality({t \in Types : net.fetches[t] > 0}) >= 2]_vars

\* C12: the fetches of one sweep run one after the other, in the order of the
\* sources: at no time is more than one request open, and the fetch of a source is
\* started only when the request for every source before it is over (both pages)
C12_FetchesOneByOne ==
  /\ [](Cardinality(net.open) <= 1)
  /\ [][\A i \in 1..Len(FACTORY_SOURCES) :
          net'.fetches[FACTORY_SOURCES[i]] > net.fetches[FACTORY_SOURCES[i]] =>
            /\ net'.open = {FACTORY_SOURCES[i]}
            /\ \A j \in 1..(i - 1) : net'.fetches[FACTORY_SOURCES[j]] = 1]_vars

\* the third source is being fetched: the two before it were answered, the last one
\* was not asked for yet
C12_Witness ==
  /\ page = "main"
  /\ net.open = {"JV_F_L"}
  /\ net.fetches["XL_F_P"] = 1
  /\ net.fetches["XL_F_L"] = 0
  /\ net.failed = {"JV_F_P"}

\* C13: no failure of sources makes loadAllFactories() reject: whichever sources
\* failed, all of them too, no caller's promise is rejected, and when the sweep is over
\* every caller holds the catalog
C13_NeverRejects ==
  /\ \A i \in 1..Len(calls) : calls[i].st \in {"pending", "fulfilled"}
  /\ SweepOver =>
       /\ factoriesLoaded
       /\ \A i \in 1..Len(calls) :
            calls[i].st = "fulfilled" /\ calls[i].value = cachedFactories

\* all four sources failed and two callers were given the empty catalog
C13_Witness ==
  /\ SweepOver
  /\ net.failed = Types
  /\ Len(calls) >= 2
  /\ \A i \in 1..Len(calls) : calls[i].st = "fulfilled" /\ calls[i].value = <<>>

-----------------------------------------------------------------------------
(* Properties: the ignore key set after an apply *)

\* the last apply took in the results of the server and is over
AppliedWithResults ==
  /\ apply.pc = "idle"
  /\ ~state.isApplying
  /\ ui.results # <<>>
  /\ ui.results # <<ErrorResult>>

\* C14 as the specification words it: after a successful apply the ignore key set is
\* replaced by ignore_keys of the response when it gives them and by a reload of the
\* ignore sources when it does not, and for a server whose ignore_keys are the keys of
\* its ignore files both ways leave the same key set, the keys of those files
C14_BothPathsSameKeys ==
  AppliedWithResults => state.ignoreSet = ServerKeys(server.files)

-----------------------------------------------------------------------------
(* Properties: the command of killFabriks *)

\* the positions of the newlines of text
Breaks(text) == {i \in 1..Len(text) : SubSeq(text, i, i) = "\n"}

\* the lines of text, the newline being the separator; at(k) is the position of
\* the k-th newline, 0 for k = 0 and one past the end beyond the last newline
SplitLines(text) ==
  LET breaks == Breaks(text)
      at(k) == IF k = 0
                 THEN 0
                 ELSE IF k > Cardinality(breaks)
                   THEN Len(text) + 1
                   ELSE CHOOSE i \in breaks :
                          Cardinality({j \in breaks : j < i}) = k - 1
  IN [k \in 1..(Cardinality(breaks) + 1) |->
        SubSeq(text, at(k - 1) + 1, at(k) - 1)]

PreviewLines == SplitLines(killForm.preview)

\* C15: the command of the cleanup builder is the bare command python killFabriks.py
\* when (and, unless nothing is selected, only when) run-cleanup is checked, then one
\* registration line for each selected entry in the order of the selection, the lines
\* joined by newlines; with nothing selected and run-cleanup unchecked it is the bare
\* command
C15_CleanupThenRegistrations ==
  page = "main" =>
    LET first == IF killForm.runCleanup THEN 1 ELSE 0
        lines == PreviewLines
    IN IF ~killForm.runCleanup /\ killSelections = <<>>
         THEN killForm.preview = "python killFabriks.py"
         ELSE /\ Len(lines) = first + Len(killSelections)
              /\ killForm.runCleanup => lines[1] = "python killFabriks.py"
              /\ \A i \in 1..Len(killSelections) :
                   /\ lines[first + i] # "python killFabriks.py"
                   /\ lines[first + i] =
                        buildKillAddCommand(killSelections[i].type,
                                            killSelections[i].id,
                                            killSelections[i].name)

\* run-cleanup is checked and three entries are selected: four lines
C15_Witness ==
  /\ page = "main"
  /\ killForm.runCleanup
  /\ Len(killSelections) = 3
  /\ Len(PreviewLines) = 4
  /\ killSelections[1].type = "XL_F_P"

-----------------------------------------------------------------------------
(* Properties: the preview of a command form *)

\* C16: after every updateCommand the preview is not empty and no exception has
\* left updateCommand; when the builder threw or returned the empty string the
\* preview is the default command of the script, and otherwise what the builder
\* returned
C16_PreviewNeverEmpty ==
  cmd.script # "" =>
    /\ cmd.preview # ""
    /\ ~cmd.threw
    /\ IF cmd.built.threw \/ cmd.built.text = ""
         THEN cmd.preview = DEFAULT_COMMANDS[cmd.script]
         ELSE cmd.preview = cmd.built.text

\* two fields gave nothing, the builder returned the empty string, and the
\* preview is the default command
C16_Witness ==
  /\ cmd.script = "login"
  /\ Len(cmd.parts) = 2
  /\ ~cmd.built.threw
  /\ cmd.built.text = ""
  /\ cmd.preview = "python Login.py"

-----------------------------------------------------------------------------
(* Properties: quoting and joining the parts of a command line *)

\* the characters of text, as a set
CharsOf(text) == {SubSeq(text, i, i) : i \in 1..Len(text)}

\* letters, digits and _ . @ % + = : , / \ -
BareCharacters ==
  CharsOf("abcdefghijklmnopqrstuvwxyz") \cup CharsOf("ABCDEFGHIJKLMNOPQRSTUVWXYZ")
    \cup CharsOf("0123456789")
    \cup {"_", ".", "@", "%", "+", "=", ":", ",", "/", Backslash, "-"}

\* the text of a part that is a string or a number
TextOf(part) == IF part.k = "number" THEN IntToString(part.n) ELSE part.s

BeginsWithDash(text) == text # "" /\ SubSeq(text, 1, 1) = "-"

\* C17: shellQuote gives back unchanged every non-empty part made of letters,
\* digits and _ . @ % + = : , / \ - only, and every part that begins with a dash;
\* for null, undefined and the empty string it gives the empty string
C17_SafeAndDashUnchanged ==
  \A i \in 1..Len(cmd.parts) :
    LET part == cmd.parts[i]
    IN /\ part.k \in {"undefined", "null"} => shellQuote(part) = ""
       /\ part.k \in {"string", "number"} =>
            /\ TextOf(part) = "" => shellQuote(part) = ""
            /\ (TextOf(part) # "" /\ CharsOf(TextOf(part)) \subseteq BareCharacters)
                 => shellQuote(part) = TextOf(part)
            /\ BeginsWithDash(TextOf(part)) => shellQuote(part) = TextOf(part)

\* a part that begins with a dash and holds spaces, and a part with a backslash
\* among safe characters, went through the builder unchanged
C17_Witness ==
  /\ cmd.parts = <<Str("-a b "), Str("a" \o Backslash \o "b")>>
  /\ cmd.built = Returned("-a b  a" \o Backslash \o "b")

\* double quote, backslash, dollar and backtick
NeedBackslash == {Quote, Backslash, "$", Backtick}

\* how many of the first i characters of text need a backslash
NeedBefore(text, i) ==
  Cardinality({j \in 1..i : SubSeq(text, j, j) \in NeedBackslash})

\* quoted is text between one pair of double quotes, with one backslash put
\* before each character that needs one and every other character as it was
QuotedOnce(text, quoted) ==
  /\ Len(quoted) = Len(text) + NeedBefore(text, Len(text)) + 2
  /\ SubSeq(quoted, 1, 1) = Quote
  /\ SubSeq(quoted, Len(quoted), Len(quoted)) = Quote
  /\ \A i \in 1..Len(text) :
       LET at == 1 + i + NeedBefore(text, i)
       IN /\ SubSeq(quoted, at, at) = SubSeq(text, i, i)
          /\ SubSeq(text, i, i) \in NeedBackslash
               => SubSeq(quoted, at - 1, at - 1) = Backslash

\* C18: a non-empty part that does not begin with a dash and holds a character
\* outside the safe ones comes back from shellQuote between one pair of double
\* quotes, each double quote, backslash, dollar and backtick of it with exactly
\* one backslash put before it, every other character (apostrophe, space)
\* unchanged
C18_UnsafeQuotedOnce ==
  \A i \in 1..Len(cmd.parts) :
    LET part == cmd.parts[i]
    IN (/\ part.k \in {"string", "number"}
        /\ TextOf(part) # ""
        /\ ~BeginsWithDash(TextOf(part))
        /\ ~(CharsOf(TextOf(part)) \subseteq BareCharacters))
         => QuotedOnce(TextOf(part), shellQuote(part))

\* a part with dollar and backticks and a part with an apostrophe, spaces and
\* double quotes went through the builder
C18_Witness ==
  /\ cmd.parts = <<Str("$x" \o Backtick \o "y" \o Backtick),
                   Str("it's " \o Quote \o "q" \o Quote)>>
  /\ cmd.built =
       Returned(Quote \o Backslash \o "$x" \o Backslash \o Backtick \o "y"
                  \o Backslash \o Backtick \o Quote \o " "
                  \o Quote \o "it's " \o Backslash \o Quote \o "q"
                  \o Backslash \o Quote \o Quote)

\* the text a part stands for: nothing for null and undefined, the decimal digits
\* for a number
Stands(part) == IF part.k \in {"undefined", "null"} THEN "" ELSE TextOf(part)

\* the parts of the form that stand for some text, by their positions
KeptPositions == {i \in 1..Len(cmd.parts) : Stands(cmd.parts[i]) # ""}

\* the piece of the line for the part at position i
Piece(i) == shellQuote(Str(Stands(cmd.parts[i])))

\* where the piece of position i begins in the line: after the pieces of the
\* kept positions before it and one space for each
RECURSIVE PieceStart(_)
PieceStart(i) ==
  IF i = 0
    THEN 0
    ELSE PieceStart(i - 1)
           + (IF i \in KeptPositions THEN Len(Piece(i)) + 1 ELSE 0)

\* C19: joinCommand turns numbers into their decimal strings, drops the parts
\* that are null, undefined or the empty string, quotes each of the others with
\* shellQuote and joins them in the order of the input with exactly one space
\* between neighbours; python, Login.py, --account, bob, --verbose gives the line
\* python Login.py --account bob --verbose
C19_JoinedWithOneSpace ==
  LET line == joinCommand(cmd.parts)
  IN /\ Len(line) = IF KeptPositions = {}
                       THEN 0
                       ELSE PieceStart(Len(cmd.parts)) - 1
     /\ \A i \in KeptPositions :
          /\ SubSeq(line, PieceStart(i - 1) + 1, PieceStart(i) - 1) = Piece(i)
          /\ PieceStart(i - 1) > 0
               => SubSeq(line, PieceStart(i - 1), PieceStart(i - 1)) = " "
     /\ joinCommand(<<Str("python"), Str("Login.py"), Str("--account"),
                       Str("bob"), Str("--verbose")>>)
          = "python Login.py --account bob --verbose"

\* a number and a part with a space went through the builder
C19_Witness ==
  /\ cmd.parts = <<Num(12), Str("a b")>>
  /\ cmd.built = Returned("12 " \o Quote \o "a b" \o Quote)

\* the first and the last character of a text that is not empty
FirstOf(text) == SubSeq(text, 1, 1)
LastOf(text) == SubSeq(text, Len(text), Len(text))

\* the text of the last part that joinCommand keeps
LastKept ==
  Stands(cmd.parts[CHOOSE i \in KeptPositions : \A j \in KeptPositions : j <= i])

\* C20 as stated: for every sequence of parts the line of joinCommand neither
\* begins nor ends with whitespace
C20_NoOuterWhitespace ==
  LET line == joinCommand(cmd.parts)
  IN line # "" => /\ FirstOf(line) \notin Whitespace
                  /\ LastOf(line) \notin Whitespace

\* C20: for every sequence of parts the line of joinCommand does not begin with
\* whitespace, and it ends with whitespace only when the last part kept begins
\* with a dash and itself ends with whitespace
C20_OuterWhitespaceOnlyFromDashPart ==
  LET line == joinCommand(cmd.parts)
  IN line # "" =>
       /\ FirstOf(line) \notin Whitespace
       /\ LastOf(line) \in Whitespace
            => /\ KeptPositions # {}
               /\ BeginsWithDash(LastKept)
               /\ LastOf(LastKept) \in Whitespace

\* a part that begins with a dash and ends with a space is the last of the
\* line, and the line ends with that space
C20_Witness ==
  /\ cmd.parts = <<Str("python"), Str("-a b ")>>
  /\ cmd.built = Returned("python -a b ")
  /\ cmd.preview = "python -a b "

-----------------------------------------------------------------------------
(* Properties: the builders of the command forms *)

\* the items of the list texts the fields are given, written out
ListedIn(text) ==
  CASE text = "7" -> <<"7">>
    [] text = "7, 8;9" -> <<"7", "8", "9">>
    [] text = ";7,,7\n 8 ;" -> <<"7", "7", "8">>
    [] text = "Alpha; Beta Gamma" -> <<"Alpha", "Beta Gamma">>
    [] text = "x,x" -> <<"x", "x">>
    [] OTHER -> <<>>

\* parts holds the flag once for each value, as a run of flag, value pairs in
\* the order of the values
EmittedAsPairs(parts, flag, values) ==
  /\ Cardinality({i \in 1..Len(parts) : parts[i] = Str(flag)}) = Len(values)
  /\ values # <<>> =>
       \E start \in 1..Len(parts) :
         \A k \in 1..Len(values) :
           /\ start + 2 * k - 1 <= Len(parts)
           /\ parts[start + 2 * k - 2] = Str(flag)
           /\ parts[start + 2 * k - 1] = Str(values[k])

\* parts holds the flag once, and the values right after it in their order
EmittedAfterOneFlag(parts, flag, values) ==
  /\ Cardinality({i \in 1..Len(parts) : parts[i] = Str(flag)})
       = (IF values = <<>> THEN 0 ELSE 1)
  /\ values # <<>> =>
       \E start \in 1..Len(parts) :
         /\ parts[start] = Str(flag)
         /\ \A k \in 1..Len(values) :
              /\ start + k <= Len(parts)
              /\ parts[start + k] = Str(values[k])

\* the factory ids and factory names of the export forms come as pairs
ListsAsPairs ==
  form.script \in {"exportProducts", "exportLister"} =>
    /\ EmittedAsPairs(form.parts, "--factory-id", ListedIn(form.text["factory-ids"]))
    /\ EmittedAsPairs(form.parts, "--factory-name",
                      ListedIn(form.text["factory-names"]))

\* C21 as stated: in login, exportProducts, exportLister and makeHTML the checked
\* accounts, and in the export builders the factory ids and names, are emitted
\* as one flag, value pair for each item, in the order of the input
C21_RepeatedPairs ==
  /\ form.script \in {"login", "exportProducts", "exportLister", "makeHTML"} =>
       EmittedAsPairs(form.parts, "--account", getCheckedValues(form))
  /\ ListsAsPairs

\* C21: in login, exportProducts and exportLister the checked accounts, and in
\* the export builders the factory ids and names, are emitted as one flag, value
\* pair for each item, in the order of the input; makeHTML emits the flag
\* --account once, followed by every checked account in the order of the input
C21_PairsButOneFlagInMakeHTML ==
  /\ form.script \in {"login", "exportProducts", "exportLister"} =>
       EmittedAsPairs(form.parts, "--account", getCheckedValues(form))
  /\ form.script = "makeHTML" =>
       EmittedAfterOneFlag(form.parts, "--account", getCheckedValues(form))
  /\ ListsAsPairs

\* the export form with one account checked and three factory ids listed
C21_Witness ==
  /\ form.script = "exportProducts"
  /\ form.checked = {2}
  /\ form.text["factory-ids"] = "7, 8;9"
  /\ form.preview = "python exportProdukt.py --account " \o Quote \o "al ice" \o Quote
                      \o " --factory-id 7 --factory-id 8 --factory-id 9"

\* the documented defaults of the optional flags, by the name of the field
DocumentedDefaults ==
  [name \in {"target", "dataset", "output-dir", "expprod", "export-encoding",
             "save-export-encoding", "input-base", "output-base", "delimiter"} |->
     CASE name \in {"target", "dataset"} -> "all"
       [] name \in {"output-dir", "input-base"} -> "CSVDATA"
       [] name = "expprod" -> "3"
       [] name \in {"export-encoding", "save-export-encoding"} -> "1"
       [] name = "output-base" -> "readyhtml"
       [] name = "delimiter" -> ";"]

\* parts holds the flag, and holds it followed by the value
HasFlag(parts, flag) == \E i \in 1..Len(parts) : parts[i] = Str(flag)
HasFlagWith(parts, flag, value) ==
  \E i \in 1..(Len(parts) - 1) : parts[i] = Str(flag) /\ parts[i + 1] = Str(value)

\* C22: for each builder and each optional flag with a documented default
\* (target and dataset all, output-dir and input-base CSVDATA, expprod 3, the two
\* encodings 1, output-base readyhtml, delimiter ;) the flag and its value are in
\* the built command if and only if the trimmed value of the field is not empty
\* and differs from the default
C22_OptionalFlagIffNotDefault ==
  form.script # "" =>
    \A name \in ScriptFields[form.script] \cap DOMAIN DocumentedDefaults :
      LET value == Trim(form.text[name])
          wanted == value # "" /\ value # DocumentedDefaults[name]
      IN /\ HasFlag(form.parts, "--" \o name) <=> wanted
         /\ HasFlagWith(form.parts, "--" \o name, value) <=> wanted

\* the export form with the default output directory between spaces and an
\* expprod other than the default: only the latter is in the command
C22_Witness ==
  /\ form.script = "exportProducts"
  /\ form.text["output-dir"] = " CSVDATA "
  /\ form.text["expprod"] = "1"
  /\ form.preview = "python exportProdukt.py --expprod 1"

\* text does not begin with a decimal integer: it is empty, or its first
\* character is neither a digit nor a sign before a digit
NotNumeric(text) ==
  \/ text = ""
  \/ /\ SubSeq(text, 1, 1) \notin CharsOf("0123456789")
     /\ ~(/\ SubSeq(text, 1, 1) \in {"-", "+"}
          /\ Len(text) > 1
          /\ SubSeq(text, 2, 2) \in CharsOf("0123456789"))

\* C23: in every builder with a limit field, an empty value and a value that is
\* not a number (abc) leave the flag --limit out altogether, and the flag is
\* never emitted with the value 0
C23_NoLimitWithoutNumber ==
  (form.script # "" /\ "limit" \in ScriptFields[form.script]) =>
    /\ NotNumeric(Trim(form.text["limit"])) => ~HasFlag(form.parts, "--limit")
    /\ ~HasFlagWith(form.parts, "--limit", "0")
    /\ \A i \in 1..Len(form.parts) :
         form.parts[i] = Str("--limit") =>
           /\ i < Len(form.parts)
           /\ form.parts[i + 1] \notin {Num(0), Null, NaN, Str("NaN"), Str("null")}

\* the export form with the limit abc and verbose checked: no --limit
C23_Witness ==
  /\ form.script = "exportProducts"
  /\ form.text["limit"] = "abc"
  /\ form.toggles = {"verbose"}
  /\ form.preview = "python exportProdukt.py --verbose"

\* C30: parseList splits its input at commas, semicolons and newlines, trims
\* each piece and drops the empty ones; the pieces keep the order of the input
\* and repeated values stay, and the empty input gives the empty list
C30_ListSplitTrimmedInOrder ==
  /\ \A name \in {"factory-ids", "factory-names"} :
       /\ parseList(form.text[name]) = ListedIn(form.text[name])
       /\ parseList(" " \o form.text[name] \o ",") = ListedIn(form.text[name])
       /\ \A i \in 1..Len(parseList(form.text[name])) :
            LET item == parseList(form.text[name])[i]
            IN /\ item # ""
               /\ CharsOf(item) \cap {",", ";", "\n", "\r"} = {}
               /\ FirstOf(item) \notin Whitespace
               /\ LastOf(item) \notin Whitespace
  /\ parseList("") = <<>>
  /\ parseList("a\r\nb") = <<"a", "b">>

\* a list with separators side by side, a repeated id and spaces went through
\* the export builder
C30_Witness ==
  /\ form.script = "exportLister"
  /\ form.text["factory-ids"] = ";7,,7\n 8 ;"
  /\ form.text["factory-names"] = "Alpha; Beta Gamma"
  /\ form.preview = "python exportLister.py --factory-id 7 --factory-id 7 "
                      \o "--factory-id 8 --factory-name Alpha --factory-name "
                      \o Quote \o "Beta Gamma" \o Quote

-----------------------------------------------------------------------------
(* Properties: the registration lines of killFabriks *)

\* how many of the first i characters of text are a double quote or a backslash
EscapesBefore(text, i) ==
  Cardinality({j \in 1..i : SubSeq(text, j, j) \in {Quote, Backslash}})

\* the length text has once each double quote and backslash got a backslash
EscapedLen(text) == Len(text) + EscapesBefore(text, Len(text))

\* line holds, from the position after at, a double quote, then text with one
\* backslash put before each double quote and backslash of it and every other
\* character as it was, then a double quote
EmbedsAt(line, at, text) ==
  /\ SubSeq(line, at + 1, at + 1) = Quote
  /\ SubSeq(line, at + EscapedLen(text) + 2, at + EscapedLen(text) + 2) = Quote
  /\ \A i \in 1..Len(text) :
       LET pos == at + 1 + i + EscapesBefore(text, i)
       IN /\ SubSeq(line, pos, pos) = SubSeq(text, i, i)
          /\ SubSeq(text, i, i) \in {Quote, Backslash}
               => SubSeq(line, pos - 1, pos - 1) = Backslash

RegistrationHead == "python -c " \o Quote
                      \o "from killFabriks import add_kill_fabriks; add_kill_fabriks("

\* line is the registration line of the entry: the head, the type, the id and the
\* name embedded and separated by a comma and a space, the closing bracket and
\* the closing double quote
IsRegistrationLine(line, e) ==
  LET h == Len(RegistrationHead)
      afterType == h + EscapedLen(e.type) + 2
      afterId == afterType + 2 + EscapedLen(e.id) + 2
      afterName == afterId + 2 + EscapedLen(e.name) + 2
  IN /\ SubSeq(line, 1, h) = RegistrationHead
     /\ EmbedsAt(line, h, e.type)
     /\ SubSeq(line, afterType + 1, afterType + 2) = ", "
     /\ EmbedsAt(line, afterType + 2, e.id)
     /\ SubSeq(line, afterId + 1, afterId + 2) = ", "
     /\ EmbedsAt(line, afterId + 2, e.name)
     /\ SubSeq(line, afterName + 1, Len(line)) = ")" \o Quote

\* C29: each registration line embeds the type, the id and the name of its entry
\* between double quotes, every backslash doubled and every double quote with a
\* backslash before it, no other character changed, values of safe characters
\* between double quotes as well; an entry with an empty id gives no line
C29_RegistrationEscapesQuoteAndBackslash ==
  /\ page = "main" =>
       \A i \in 1..Len(killSelections) :
         IsRegistrationLine(PreviewLines[i + (IF killForm.runCleanup THEN 1 ELSE 0)],
                            killSelections[i])
  /\ \A d \in KillAddDatasets : buildKillAddCommand(d.type, "", d.name) = ""

\* the entry whose name holds a space, a double quote, a backslash and a dollar
\* is selected, and its line is the preview
C29_Witness ==
  /\ page = "main"
  /\ ~killForm.runCleanup
  /\ Len(killSelections) = 1
  /\ killSelections[1].name = "a " \o Quote \o "b" \o Backslash \o "c$"
  /\ killForm.preview =
       RegistrationHead \o Quote \o "XL_F_P" \o Quote \o ", " \o Quote \o "7" \o Quote
         \o ", " \o Quote \o "a " \o Backslash \o Quote \o "b" \o Backslash
         \o Backslash \o "c$" \o Quote \o ")" \o Quote

-----------------------------------------------------------------------------
(* Properties: the entries of the catalog *)

\* a value that is there and is not the empty string
NonEmpty(v) == v.k \notin {"undefined", "null"} /\ v # Str("")

\* the ids the elements of the file of a source give when the first non-empty
\* value among the spellings id, ID, factory_id is taken
WantedIds(type) ==
  {JsString(IF NonEmpty(item.id) THEN item.id
            ELSE IF NonEmpty(item.ID) THEN item.ID ELSE item.factory_id) :
     item \in {FactoryFile(type)[i] : i \in {j \in 1..Len(FactoryFile(type)) :
                 LET e == FactoryFile(type)[j]
                 IN e.obj /\ (NonEmpty(e.id) \/ NonEmpty(e.ID)
                                \/ NonEmpty(e.factory_id))}}}

\* the ids the catalog holds for a source
IdsOf(catalog, type) ==
  {catalog[i].id : i \in {j \in 1..Len(catalog) : catalog[j].type = type}}

\* C24 as stated: an element of a source gives an entry under the first non-empty
\* value among id, ID and factory_id, and is skipped only when none of them is
\* non-empty; an element with the id "" and the ID "5" gives the entry of id 5
C24_FirstNonEmptyIdWins ==
  /\ factoriesLoaded =>
       \A type \in Types \ net.failed : IdsOf(cachedFactories, type) = WantedIds(type)
  /\ BootCatalogLoaded =>
       \A type \in Types \ net.failed : IdsOf(state.factories, type) = WantedIds(type)

\* the item count of every entry of the catalog is an integer or is not there,
\* and the entry of the element with the count "12" has the integer 12
CountsAreIntegers(catalog) ==
  \A i \in 1..Len(catalog) :
    /\ catalog[i].itemCount.k \in {"number", "null", "undefined"}
    /\ (catalog[i].type = "JV_F_P" /\ catalog[i].id = "2")
         => catalog[i].itemCount = Num(12)

\* C25 as stated: in the kill flow and in the ignore flow the item count of every
\* entry of the catalog is an integer or absent: a string that looks like a number
\* becomes its integer, a string that cannot be parsed leaves the count absent,
\* never NaN
C25_CountIntegerOrAbsent ==
  /\ CountsAreIntegers(cachedFactories)
  /\ CountsAreIntegers(state.factories)

\* a comes no later than b by type, then by name, then by id, each compared with
\* the collation of the pages (no case, digits as numbers)
KeyLessEq(a, b) ==
  LET byType == COLLATOR(a.type, b.type)
      byName == COLLATOR(a.name, b.name)
  IN \/ byType < 0
     \/ /\ byType = 0
        /\ \/ byName < 0
           \/ byName = 0 /\ COLLATOR(a.id, b.id) <= 0

SortedByKey(catalog) ==
  \A i \in 1..(Len(catalog) - 1) : KeyLessEq(catalog[i], catalog[i + 1])

\* C26: after every sweep that is over the catalog is sorted in ascending order
\* by type, name and id: of two neighbours the earlier one is less than or equal
\* to the later one under that key
C26_CatalogSorted ==
  [][/\ cachedFactories' # cachedFactories => SortedByKey(cachedFactories')
     /\ state'.factories # state.factories => SortedByKey(state'.factories)]_vars

\* all sources answered: the two entries of JV_F_P whose names differ in case
\* only stand in the order of their ids, which is not the order of the file
C26_Witness ==
  /\ factoriesLoaded
  /\ net.failed = {}
  /\ Len(cachedFactories) >= 4
  /\ cachedFactories[1].type = "JV_F_L"
  /\ \E i \in 1..(Len(cachedFactories) - 1) :
       /\ cachedFactories[i].type = "JV_F_P" /\ cachedFactories[i].id = "1"
       /\ cachedFactories[i + 1].type = "JV_F_P" /\ cachedFactories[i + 1].id = "2"

\* C27 as stated: the catalog one load gives holds no two entries of the same
\* identity (type, id), whatever the sources hold
C27_NoDuplicateIdentities ==
  /\ NoDuplicates(cachedFactories)
  /\ NoDuplicates(state.factories)

\* the positions of the catalog entries that pass the type filter and the search
\* filter of the picker
PassTypeAndSearch ==
  {i \in 1..Len(state.factories) :
     /\ picker.type \in {"all", state.factories[i].type}
     /\ \/ Trim(picker.search) = ""
        \/ includes(toLowerCase(state.factories[i].name),
                    toLowerCase(Trim(picker.search)))
        \/ includes(toLowerCase(state.factories[i].id),
                    toLowerCase(Trim(picker.search)))}

\* those of them whose key is in the ignore key set
PassAndIgnored ==
  {i \in PassTypeAndSearch :
     (state.factories[i].type \o "::" \o state.factories[i].id) \in state.ignoreSet}

\* the catalog entries at the positions of a set, in catalog order
RECURSIVE EntriesAt(_, _)
EntriesAt(positions, from) ==
  IF from > Len(state.factories)
    THEN <<>>
    ELSE (IF from \in positions THEN <<state.factories[from]>> ELSE <<>>)
           \o EntriesAt(positions, from + 1)

\* C28: the ignore filter of the picker has three modes: 'all' shows every catalog
\* entry that passes the type and search filters, 'new' exactly those of them whose
\* (type, id) key is not in the ignore key set, 'ignored' exactly those whose key is
\* in it; the two restricted modes partition the result of 'all'
C28_IgnoreFilterModes ==
  boot.pc = "ready" =>
    LET shown(mode) ==
          renderPickerList(state.factories, state.ignoreSet,
                           picker.search, picker.type, mode)
    IN /\ picker.ignoreFilter = "all"
            => pickerList = EntriesAt(PassTypeAndSearch, 1)
       /\ picker.ignoreFilter = "new"
            => pickerList = EntriesAt(PassTypeAndSearch \ PassAndIgnored, 1)
       /\ picker.ignoreFilter = "ignored"
            => pickerList = EntriesAt(PassAndIgnored, 1)
       /\ Len(shown("new")) + Len(shown("ignored")) = Len(shown("all"))
       /\ \A e \in {shown("all")[k] : k \in 1..Len(shown("all"))} :
            (\E k \in 1..Len(shown("new")) : shown("new")[k] = e)
              # (\E k \in 1..Len(shown("ignored")) : shown("ignored")[k] = e)

\* a search is typed that keeps a part of the catalog, of which some entries are
\* ignored and some are not, and the mode 'new' is shown
C28_Witness ==
  /\ boot.pc = "ready"
  /\ picker.search # "" /\ picker.ignoreFilter = "new"
  /\ pickerList # <<>>
  /\ PassAndIgnored # {}
  /\ Len(pickerList) < Cardinality(PassTypeAndSearch)
  /\ Cardinality(PassTypeAndSearch) < Len(state.factories)

-----------------------------------------------------------------------------
(* Properties: the end of an apply *)

\* the step in which an apply whose results have arrived comes to its end
ApplySucceedsStep ==
  /\ state.isApplying
  /\ apply.pc \in {"json", "reload"}
  /\ apply'.pc = "idle"
  /\ ui'.results = apply.response.results

\* the results of the apply report an error for the identity of a selection entry
ReportedInError(e) ==
  \E i \in 1..Len(apply.response.results) :
    /\ apply.response.results[i].status = "error"
    /\ apply.response.results[i].type = e.type
    /\ apply.response.results[i].id = e.id

\* a selection without what rendering writes into its entries
Unrendered(sel) == [i \in 1..Len(sel) |-> [sel[i] EXCEPT !.alreadyIgnored = FALSE]]

\* C31: when an apply completes successfully the selection becomes exactly the
\* subsequence, in order, of the selection at that time whose (type, id) keys the
\* results report with status 'error'; every other entry is removed, an entry added
\* while the request was pending and never sent included
C31_SuccessKeepsOnlyFailed ==
  [][ApplySucceedsStep =>
       /\ Unrendered(state'.selections)
            = Unrendered(SelectSeq(state.selections, ReportedInError))
       /\ \A i \in 1..Len(state.selections) :
            (\A j \in 1..Len(apply.sent) :
               <<apply.sent[j].type, apply.sent[j].id>>
                 # <<state.selections[i].type, state.selections[i].id>>)
              => \A k \in 1..Len(state'.selections) :
                   <<state'.selections[k].type, state'.selections[k].id>>
                     # <<state.selections[i].type, state.selections[i].id>>]_vars

\* the results of an apply have arrived with an error for the entry sent, while a
\* second entry, added after the request was sent, is selected: the apply completes
\* with the next step
C31_Witness ==
  /\ state.isApplying
  /\ apply.pc = "json"
  /\ HasIgnoreKeys(apply.response)
  /\ Len(apply.sent) = 1
  /\ apply.response.results[1].status = "error"
  /\ Len(state.selections) = 2
  /\ state.selections[1].id = apply.sent[1].id
  /\ state.selections[1].type = apply.sent[1].type
  /\ state.selections[2].type # apply.sent[1].type

-----------------------------------------------------------------------------
(* Properties: a sweep in which sources failed *)

\* a sweep is over in which one source or more failed
FailedSweepOver == net.sweeps > 0 /\ sweep.id = 0 /\ net.failed # {}

\* C32: a sweep in which one or more sources failed, all of them too, is memoized
\* like any other: factoriesLoaded is true, and no later call of loadAllFactories()
\* fetches any source again, so that the catalog and the list of the labels of the
\* failed sources stay as the sweep left them
C32_FailedSweepMemoized ==
  [][FailedSweepOver =>
       /\ factoriesLoaded /\ factoriesLoaded'
       /\ net'.fetches = net.fetches
       /\ net'.sweeps = 1
       /\ cachedFactories' = cachedFactories
       /\ factoryLoadErrors' = factoryLoadErrors
       /\ Len(factoryLoadErrors) = Cardinality(net.failed)
       /\ Len(calls') > Len(calls) =>
            calls'[Len(calls')] = [promise |-> 0, st |-> "fulfilled",
                                   value |-> cachedFactories]]_vars

\* two sources failed in the sweep, and a call made after it was answered at once
\* with the catalog of the other two; every source was fetched once
C32_Witness ==
  /\ FailedSweepOver
  /\ net.failed = {"JV_F_P", "XL_F_L"}
  /\ Len(factoryLoadErrors) = 2
  /\ cachedFactories # <<>>
  /\ \A t \in Types : net.fetches[t] = 1
  /\ Len(calls) >= 2
  /\ calls[Len(calls)].promise = 0
  /\ calls[Len(calls)].value = cachedFactories

-----------------------------------------------------------------------------
(* Properties: the apply button *)

\* a handler has changed the selection of the ignore flow or the applying flag
SelectionOrFlagChanges ==
  \/ Keys(state'.selections) # Keys(state.selections)
  \/ state'.isApplying # state.isApplying

\* C33: after every handler that changes the selection of the ignore flow or the
\* applying flag (add, remove, start of an apply, its completion or failure) the apply
\* button is disabled if and only if an apply is pending or the selection is empty;
\* it is disabled for the whole time an apply is pending, entries added meanwhile or
\* not
C33_ApplyButtonFollowsState ==
  /\ [](state.isApplying => ui.applyDisabled)
  /\ [][SelectionOrFlagChanges =>
          (ui'.applyDisabled <=> (state'.isApplying \/ state'.selections = <<>>))]_vars

\* an apply of one entry is pending, a second entry was added after it was sent, and
\* the button is disabled
C33_Witness ==
  /\ state.isApplying
  /\ Len(apply.sent) = 1
  /\ Len(state.selections) = 2
  /\ ui.applyDisabled

-----------------------------------------------------------------------------
(* Properties: an apply comes to its end *)

\* C34: every apply that starts ends in time with isApplying false again, provided
\* each request it issues (the POST and, when the response has no ignore_keys, the
\* fetches of the reload of the ignore lists) completes or fails in time; this holds
\* on the path of success, on the path of a non-2xx response and on the path of a
\* thrown error
C34_ApplyEnds ==
  state.isApplying ~> (~state.isApplying /\ apply.pc = "idle")

\* an apply of one entry went through the reload of the ignore lists and has ended:
\* its result is shown, the entry has left the selection, the flag is down
C34_Witness ==
  /\ apply.pc = "idle"
  /\ ~state.isApplying
  /\ Len(ui.results) = 1
  /\ ui.results[1].status = "added"
  /\ state.selections = <<>>
  /\ ~(ui.results[1].type \o "::" \o ui.results[1].id \in state.ignoreSet)

-----------------------------------------------------------------------------
(* Properties: the lists and the preview follow the selection *)

\* the remove buttons of a selected list are those of the entries of sel, in order
ShowsSelection(selected, sel) ==
  /\ Len(selected) = Len(sel)
  /\ \A i \in 1..Len(sel) :
       selected[i].type = sel[i].type /\ selected[i].id = sel[i].id

\* every add button of a picker list is disabled exactly when its identity is in sel
AddsFollowSelection(adds, sel) ==
  \A i \in 1..Len(adds) :
    adds[i].disabled <=> <<adds[i].type, adds[i].id>> \in KeySet(sel)

\* C35: after every add or remove that changes a selection, and in the ignore flow
\* after every apply, the two lists agree with the selection: the selected list shows
\* exactly the entries of the selection, in order, and the add button of a picker entry
\* is disabled if and only if its identity is selected; in the kill flow the picker
\* shows the loaded catalog and the preview is what the builder of killFabriks gives
\* for the selection
C35_ListsFollowSelection ==
  [][/\ killSelections' # killSelections =>
          /\ ShowsSelection(killLists'.selected, killSelections')
          /\ AddsFollowSelection(killLists'.adds, killSelections')
          /\ factoriesLoaded => Len(killLists'.adds) = Len(cachedFactories)
          /\ killForm'.preview = killFabriks(killForm'.runCleanup, killSelections')
     /\ (\/ Keys(state'.selections) # Keys(state.selections)
         \/ apply.pc # "idle" /\ apply'.pc = "idle") =>
          /\ ShowsSelection(ui'.selected, state'.selections)
          /\ AddsFollowSelection(ui'.adds, state'.selections)
          /\ Len(ui'.adds) = Len(state.factories)]_vars

\* the catalog of the kill flow is loaded and shown, two entries are selected: their
\* add buttons are disabled, others are not, and the selected list shows both
C35_Witness ==
  /\ page = "main"
  /\ factoriesLoaded
  /\ Len(killSelections) = 2
  /\ Len(killLists.selected) = 2
  /\ Cardinality({i \in 1..Len(killLists.adds) : killLists.adds[i].disabled}) = 2
  /\ \E i \in 1..Len(killLists.adds) : ~killLists.adds[i].disabled
  /\ killForm.preview # "python killFabriks.py"

-----------------------------------------------------------------------------
(* Properties: the selection of the ignore flow and the catalog *)

\* C36: in the ignore flow, after any sequence of clicks on add buttons, of removes
\* and of applies, every entry of the selection has the identity (type, id) of an
\* entry of the loaded catalog, neither part empty: a click on an add button whose
\* type and id match no catalog entry, or whose type or id is empty, changes nothing
C36_SelectionWithinCatalog ==
  \A i \in 1..Len(state.selections) :
    /\ state.selections[i].type # ""
    /\ state.selections[i].id # ""
    /\ \E j \in 1..Len(state.factories) :
         /\ state.factories[j].type = state.selections[i].type
         /\ state.factories[j].id = state.selections[i].id
         /\ state.factories[j].name = state.selections[i].name

\* an apply found its entry in the ignore file already and dropped it; two catalog
\* entries were selected after it
C36_Witness ==
  /\ apply.pc = "idle"
  /\ Len(ui.results) = 1
  /\ ui.results[1].status = "exists"
  /\ Len(state.selections) = 2
  /\ Len(state.factories) > 2

-----------------------------------------------------------------------------
(* Properties: who assigns the ignore key set *)

\* what a load of the ignore lists that is at its last source can leave: the keys it
\* has, with or without the keys of the file of that source
AfterLastSource(l) ==
  IF l.idx = Len(IGNORE_SOURCES)
    THEN {l.next,
          l.next \cup IgnoreFileKeys(IGNORE_SOURCES[l.idx],
                                     server.files[IGNORE_SOURCES[l.idx]])}
    ELSE {}

\* the initial load of bootstrap comes to its end
InitialLoadEnds ==
  /\ boot.pc = "loadIgnoreLists" /\ boot'.pc = "ready"
  /\ state'.ignoreSet \in AfterLastSource(boot.ign)

\* an apply whose results have arrived ends with the keys of the response
ApplyEndsWithKeysGiven ==
  /\ apply.pc = "json" /\ apply'.pc = "idle"
  /\ ui'.results = apply.response.results
  /\ state'.ignoreSet = apply.response.keys

\* an apply whose results have arrived ends with the reload of the ignore lists
ApplyEndsWithReload ==
  /\ apply.pc = "reload" /\ apply'.pc = "idle"
  /\ ui'.results = apply.response.results
  /\ state'.ignoreSet \in AfterLastSource(apply.ign)

\* a load goes from l to l2 and is not over: it is at the same source or at the
\* next one, and has the keys it had, with or without those of the source it leaves
LoadGoesOn(l, l2) ==
  /\ l2.idx \in {l.idx, l.idx + 1}
  /\ l2.idx <= Len(IGNORE_SOURCES)
  /\ l2.next \in {l.next,
                  l.next \cup IgnoreFileKeys(IGNORE_SOURCES[l.idx],
                                             server.files[IGNORE_SOURCES[l.idx]])}

\* C37: the ignore key set is assigned by the initial load of the ignore lists and on
\* the success path of an apply only; add, remove, filtering, rendering and an apply
\* that failed leave it as it is, and a load replaces it in one step after all the
\* ignore sources were gone through (a source that failed or gave no array adds no
\* key and does not stop the others)
C37_KeySetAssignedByLoadAndApply ==
  [][/\ state'.ignoreSet # state.ignoreSet =>
          InitialLoadEnds \/ ApplyEndsWithKeysGiven \/ ApplyEndsWithReload
     /\ (boot.pc = "loadIgnoreLists" /\ boot'.pc = "loadIgnoreLists") =>
          LoadGoesOn(boot.ign, boot'.ign)
     /\ (apply.pc = "reload" /\ apply'.pc = "reload") =>
          LoadGoesOn(apply.ign, apply'.ign)]_vars

\* an apply added an entry and reloaded the ignore lists; a source of the reload
\* failed, and the key set is that of the other sources
C37_Witness ==
  /\ apply.pc = "idle"
  /\ ~state.isApplying
  /\ \E i \in 1..Len(ui.results) : ui.results[i].status = "added"
  /\ state.ignoreSet # {}
  /\ state.ignoreSet # ServerKeys(server.files)

-----------------------------------------------------------------------------
(* Properties: the limit of a command form *)

\* the text without its sign, if it has one
Unsigned(text) ==
  IF text # "" /\ SubSeq(text, 1, 1) \in {"-", "+"}
    THEN SubSeq(text, 2, Len(text))
    ELSE text

\* the digits text begins with (after its sign), without their leading zeros: the
\* decimal form of the integer a base-10 parse reads, empty for zero and for none
LeadingDigits(text) ==
  LET body == Unsigned(text)
      IsDigitAt(i) == SubSeq(body, i, i) \in CharsOf("0123456789")
      run == CHOOSE k \in 0..Len(body) :
               /\ \A i \in 1..k : IsDigitAt(i)
               /\ k < Len(body) => ~IsDigitAt(k + 1)
      zeros == CHOOSE k \in 0..run :
                 /\ \A i \in 1..k : SubSeq(body, i, i) = "0"
                 /\ k < run => SubSeq(body, k + 1, k + 1) # "0"
  IN SubSeq(body, zeros + 1, run)

\* C38: in the builders of items, exportProducts, exportLister and makeHTML the flag
\* --limit N is emitted if and only if the limit field parses (base 10, the integer
\* it begins with) to an integer N that is not zero, and N is written in decimal
\* form: the value 0 leaves the flag out, 12abc gives --limit 12
C38_LimitIsTheIntegerParsed ==
  form.script \in {"items", "exportProducts", "exportLister", "makeHTML"} =>
    LET text == Trim(form.text["limit"])
        digits == LeadingDigits(text)
        sign == IF text # "" /\ SubSeq(text, 1, 1) = "-" THEN "-" ELSE ""
    IN /\ HasFlag(form.parts, "--limit") <=> digits # ""
       /\ digits # "" =>
            /\ HasFlagWith(form.parts, "--limit", sign \o digits)
            /\ Cardinality({i \in 1..Len(form.parts) :
                              form.parts[i] = Str("--limit")}) = 1

\* the form of makeHTML with the limit 12abc: --limit 12 is in its command
C38_Witness ==
  /\ form.script = "makeHTML"
  /\ form.text["limit"] = "12abc"
  /\ form.preview = "python makeHTML.py --limit 12"


====
